---- MODULE Spec2Model ----
(***************************************************************************)
(* poetry_reader: the audio-visual composition pipeline.                   *)
(*                                                                         *)
(* generate_videos.main walks the .md files of the input directory and,    *)
(* for each poem, synthesizes one audio fragment per line, builds the      *)
(* subtitle timeline from the measured fragment durations, writes the      *)
(* concatenated track and hands both to create_video_with_subtitles.       *)
(*                                                                         *)
(* Times are integers in centiseconds (the resolution at which moviepy     *)
(* reports a clip's duration).  Characters are the tokens A (any           *)
(* non-whitespace character), SP (a space), NL (\n) and CR (\r); a string  *)
(* is a sequence of tokens.  The TTS capability, the file contents found   *)
(* by parse_md_file, and the failures of the media libraries are the       *)
(* environment: their outcomes are chosen with \E.                         *)
(*                                                                         *)
(* Spec is generate_videos.main.  The other specifications each take one   *)
(* component on its own inputs, the rest staying as constructed:           *)
(*   SpecFade      a subtitle layer's make_frame (opacity envelope)        *)
(*   SpecZoom      the Ken-Burns background's make_frame (crop box)        *)
(*   SpecCompose   create_video_with_subtitles (background, layer list)    *)
(*   SpecWrap      _wrap_text                                              *)
(*   SpecParticle  make_particle_clip's make_frame                         *)
(*   SpecTts       the TTS instances over successive calls of main         *)
(*   SpecGradient  create_gradient_background                              *)
(*   SpecRepeat    create_gradient_background, the same call twice         *)
(*   SpecNames     the output base names over successive calls of main     *)
(*   SpecDrift     Particle.update, update after update                    *)
(*   SpecSparkle   one Sparkle, frame after frame                          *)
(*   SpecOrch      VideoOrchestrator.process_all                           *)
(*   SpecRetry     the retry loop of the DriveManager operations           *)
(***************************************************************************)
EXTENDS Integers, Sequences, FiniteSets, TLC

\* ------------------------------------------------------------------ bounds
MaxFiles == 2
MaxBodyLen == 5
MaxDur == 2
MaxSegDur == 6
MaxFade == 3
MaxRes == 26
MaxZoomDur == 4
MaxSubs == 3
MaxWords == 4
MaxWordLen == 6
MaxCols == 12
MaxFrameIdx == 1
MaxCalls == 3
MaxLife == 2
MaxRuns == 3
MaxGradWidth == 2
MaxGradHeight == 10
\* the longest life of a sparkle, in half frames
MaxSparkleLife2 == 36
\* the largest max_retries of a DriveManager
MaxRetries == 6

\* ------------------------------------------------------- program constants
SilenceDuration == 50
SilenceFramerate == 22050
AudioFps == 24000
FadeDurationDefault == 50
\* zoom_factor = 1.15, in hundredths
ZoomPercent == 115
\* _measure_text: the width of one character
CharWidth == 10
\* max(10, ...) of chars_per_line
MinCharsPerLine == 10
\* max_lines = 2 if tiktok else None
TiktokMaxLines == 2
\* Particle.update: `if self.y < -20: self.y = self.height + 20`
RespawnMargin == 20
\* the height of the overlay's resolution
ParticleHeight == 4
\* the width of the overlay's resolution
ParticleWidth == 3
\* Particle.base_opacity, in tenths of itself
BaseOpacity == 10
\* the number of colours of each entry of COLOR_PALETTES
NumColours == 3
\* `if len(safe_name) > 80: safe_name = safe_name[:80]`
NameCap == 80
\* main(..., fps: int = 30, ...), the frame rate of the overlay
SparkleFps == 30

A == "a"
SP == "sp"
NL == "nl"
CR == "cr"

Min(a, b) == IF a <= b THEN a ELSE b

\* --------------------------------------------------------- text splitting
RECURSIVE ReplaceCRLF(_)
\* text.replace("\r\n", "\n")
ReplaceCRLF(s) ==
    IF s = <<>> THEN <<>>
    ELSE IF Len(s) >= 2 /\ s[1] = CR /\ s[2] = NL
         THEN <<NL>> \o ReplaceCRLF(SubSeq(s, 3, Len(s)))
         ELSE <<s[1]>> \o ReplaceCRLF(Tail(s))

\* .replace("\r", "\n")
ReplaceCR(s) == [i \in 1..Len(s) |-> IF s[i] = CR THEN NL ELSE s[i]]

RECURSIVE SplitOnNL(_)
\* .split("\n"): one more piece than there are separators; "" gives [""]
SplitOnNL(s) ==
    IF \A i \in 1..Len(s) : s[i] # NL THEN <<s>>
    ELSE LET i == CHOOSE n \in 1..Len(s) :
                      s[n] = NL /\ \A m \in 1..(n - 1) : s[m] # NL
         IN  <<SubSeq(s, 1, i - 1)>> \o SplitOnNL(SubSeq(s, i + 1, Len(s)))

split_text_into_lines(text) == SplitOnNL(ReplaceCR(ReplaceCRLF(text)))

\* line.strip() == ""
IsBlank(line) == \A i \in 1..Len(line) : line[i] \in {SP, CR, NL}

\* The bodies parse_md_file can return: the file is read with universal
\* newlines (every line break arrives as \n) and the content is strip()ped,
\* so a body neither starts nor ends with whitespace.
Strings(n) == UNION {[1..m -> {A, SP, NL}] : m \in 0..n}
Bodies == {s \in Strings(MaxBodyLen) :
              s # <<>> => (s[1] = A /\ s[Len(s)] = A)}

\* ------------------------------------------------------------ audio files
\* write_silence_wav: n_frames = int(duration * framerate); the clip read
\* back lasts n_frames / framerate.
SilenceClipDuration(duration, framerate) ==
    (((duration * framerate) \div 100) * 100) \div framerate

\* write_audiofile(fps=24000): int(fps * duration) samples are written; the
\* compositor reads the file's duration back.
WrittenDuration(duration) ==
    (((duration * AudioFps) \div 100) * 100) \div AudioFps

RECURSIVE SumDur(_)
\* sum(c.duration for c in fragments); also the duration of
\* concatenate_audioclips(fragments)
SumDur(clips) ==
    IF clips = <<>> THEN 0 ELSE clips[1].dur + SumDur(Tail(clips))

\* ------------------------------------------------------------------ state
VARIABLES
    pc,                  \* position of generate_videos.main
    nfiles,              \* len(files): the .md files found by glob
    idx,                 \* 1-based index of the poem being processed
    attempted,           \* the poems whose processing has begun
    error,               \* the exception main propagated, or "none"
    text,                \* the body returned by parse_md_file
    lines,               \* split_text_into_lines(text)
    line_indices,        \* (j, text_idx, frag_path) per line
    texts_to_synthesize, \* the texts argument of the batch call
    paths_to_synthesize, \* the out_paths argument of the batch call
    fragments,           \* audio clips, in the order they are concatenated
    subtitles,           \* the timeline handed to the compositor
    start_time,          \* running start of the next segment
    seg,                 \* position of the loop over line_indices
    frag_dirs,           \* poems whose <base>_frags directory exists
    frag_files,          \* per poem: frag_<path>.wav files that exist
    audio_files,         \* poems whose <base>.wav exists
    audio_written,       \* duration of the <base>.wav of the current poem
    video_files,         \* per poem: "absent", "partial" or "complete"
    tts_cache,           \* keys of the TTS instances main holds
    final_audio,         \* duration of concatenate_audioclips(fragments)
    duration,            \* audio.duration inside create_video_with_subtitles
    text_clips,          \* the subtitle layers of the composite
    tts_has_batch,       \* the TTS instances have synthesize_batch_to_files
    batch_calls,         \* calls of synthesize_batch_to_files for this poem
    stages,              \* the stages this poem has entered, in order
    \* one subtitle layer's make_frame
    fd_dur, fd_fade, fd_t4, fd_opacity,
    \* the Ken-Burns background's make_frame
    zm_width, zm_height, zm_duration, zm_source, zm_big, zm_t, zm_crop,
    \* create_video_with_subtitles: the layers of the composite
    cp_pc, cp_image_path, cp_zoom_background, cp_add_particles, cp_title,
    cp_author, cp_subtitles, cp_audio_duration, cp_error, cp_bg, cp_clips,
    cp_video_duration,
    \* _wrap_text
    wr_pc, wr_words, wr_max_width, wr_max_lines, wr_lines,
    \* make_particle_clip: the overlay's make_frame
    pt_particle, pt_sparkle, pt_last_frame, pt_calls, pt_t, pt_first,
    \* the TTS instances over successive calls of main
    tt_pc, tt_runs, tt_backend, tt_left, tt_cache, tt_loads,
    \* create_gradient_background
    gr_pc, gr_width, gr_height, gr_direction, gr_colors, gr_img, gr_error,
    \* create_gradient_background called twice with the same arguments
    rp_pc, rp_palette_name, rp_direction, rp_width, rp_height, rp_first,
    rp_second,
    \* the output base names over successive calls of main
    nm_pc, nm_runs, nm_nfiles, nm_idx, nm_title, nm_base_name, nm_out,
    nm_clash,
    \* one particle of the overlay over its updates
    dr_particle, dr_updates,
    \* one sparkle of the overlay over the frames
    sk_max_life2, sk_life2, sk_age, sk_active, sk_drawn,
    \* VideoOrchestrator.process_all and process_single_markdown
    or_pc, or_dry_run, or_limit, or_drive_md, or_tracker, or_disk, or_disk0,
    or_out, or_drive_videos, or_pending, or_i, or_results, or_counts,
    or_report, or_generated, or_video_file, or_upload_id, or_raised,
    or_result, or_effects,
    \* one DriveManager operation and its retries
    rt_op, rt_max_retries, rt_local_exists, rt_pc, rt_attempt, rt_calls,
    rt_failures, rt_slept, rt_outcome

mainVars == <<pc, nfiles, idx, attempted, error, text, lines, line_indices,
              texts_to_synthesize, paths_to_synthesize, fragments, subtitles,
              start_time, seg, frag_dirs, frag_files, audio_files,
              video_files, tts_cache, final_audio, audio_written, duration,
              text_clips, tts_has_batch, batch_calls, stages>>
fadeVars == <<fd_dur, fd_fade, fd_t4, fd_opacity>>
zoomVars == <<zm_width, zm_height, zm_duration, zm_source, zm_big, zm_t,
              zm_crop>>
composeVars == <<cp_pc, cp_image_path, cp_zoom_background, cp_add_particles,
                 cp_title, cp_author, cp_subtitles, cp_audio_duration,
                 cp_error, cp_bg, cp_clips, cp_video_duration>>
wrapVars == <<wr_pc, wr_words, wr_max_width, wr_max_lines, wr_lines>>
particleVars == <<pt_particle, pt_sparkle, pt_last_frame, pt_calls, pt_t,
                  pt_first>>
ttsVars == <<tt_pc, tt_runs, tt_backend, tt_left, tt_cache, tt_loads>>
gradientVars == <<gr_pc, gr_width, gr_height, gr_direction, gr_colors, gr_img,
                  gr_error>>
repeatVars == <<rp_pc, rp_palette_name, rp_direction, rp_width, rp_height,
                rp_first, rp_second>>
namesVars == <<nm_pc, nm_runs, nm_nfiles, nm_idx, nm_title, nm_base_name,
               nm_out, nm_clash>>
driftVars == <<dr_particle, dr_updates>>
sparkleVars == <<sk_max_life2, sk_life2, sk_age, sk_active, sk_drawn>>
orchVars == <<or_pc, or_dry_run, or_limit, or_drive_md, or_tracker, or_disk,
              or_disk0, or_out, or_drive_videos, or_pending, or_i, or_results,
              or_counts, or_report, or_generated, or_video_file, or_upload_id,
              or_raised, or_result, or_effects>>
retryVars == <<rt_op, rt_max_retries, rt_local_exists, rt_pc, rt_attempt,
               rt_calls, rt_failures, rt_slept, rt_outcome>>
sideVars == <<fadeVars, zoomVars, composeVars, wrapVars, particleVars,
              ttsVars, gradientVars, repeatVars, namesVars, driftVars,
              sparkleVars, orchVars, retryVars>>
fadeFrame == <<mainVars, zoomVars, composeVars, wrapVars, particleVars,
               ttsVars, gradientVars, repeatVars, namesVars, driftVars,
               sparkleVars, orchVars, retryVars>>
zoomFrame == <<mainVars, fadeVars, composeVars, wrapVars, particleVars,
               ttsVars, gradientVars, repeatVars, namesVars, driftVars,
               sparkleVars, orchVars, retryVars>>
composeFrame == <<mainVars, fadeVars, zoomVars, wrapVars, particleVars,
                  ttsVars, gradientVars, repeatVars, namesVars, driftVars,
                  sparkleVars, orchVars, retryVars>>
wrapFrame == <<mainVars, fadeVars, zoomVars, composeVars, particleVars,
               ttsVars, gradientVars, repeatVars, namesVars, driftVars,
               sparkleVars, orchVars, retryVars>>
particleFrame == <<mainVars, fadeVars, zoomVars, composeVars, wrapVars,
                   ttsVars, gradientVars, repeatVars, namesVars, driftVars,
                   sparkleVars, orchVars, retryVars>>
ttsFrame == <<mainVars, fadeVars, zoomVars, composeVars, wrapVars,
              particleVars, gradientVars, repeatVars, namesVars, driftVars,
              sparkleVars, orchVars, retryVars>>
gradientFrame == <<mainVars, fadeVars, zoomVars, composeVars, wrapVars,
                   particleVars, ttsVars, repeatVars, namesVars, driftVars,
                   sparkleVars, orchVars, retryVars>>
repeatFrame == <<mainVars, fadeVars, zoomVars, composeVars, wrapVars,
                 particleVars, ttsVars, gradientVars, namesVars, driftVars,
                 sparkleVars, orchVars, retryVars>>
namesFrame == <<mainVars, fadeVars, zoomVars, composeVars, wrapVars,
                particleVars, ttsVars, gradientVars, repeatVars, driftVars,
                sparkleVars, orchVars, retryVars>>
driftFrame == <<mainVars, fadeVars, zoomVars, composeVars, wrapVars,
                particleVars, ttsVars, gradientVars, repeatVars, namesVars,
                sparkleVars, orchVars, retryVars>>
sparkleFrame == <<mainVars, fadeVars, zoomVars, composeVars, wrapVars,
                  particleVars, ttsVars, gradientVars, repeatVars, namesVars,
                  driftVars, orchVars, retryVars>>
orchFrame == <<mainVars, fadeVars, zoomVars, composeVars, wrapVars,
               particleVars, ttsVars, gradientVars, repeatVars, namesVars,
               driftVars, sparkleVars, retryVars>>
retryFrame == <<mainVars, fadeVars, zoomVars, composeVars, wrapVars,
                particleVars, ttsVars, gradientVars, repeatVars, namesVars,
                driftVars, sparkleVars, orchVars>>
vars == <<mainVars, sideVars>>

Poems == 1..MaxFiles
Langs == {"es", "en"}
\* Durations a synthesized fragment can have (0: the backend wrote an empty
\* wav file).
Durs == 0..MaxDur
Missing == -1
\* No frame has been requested from a frame callback.
NoFrame == -1
\* max_lines is None.
NoMaxLines == 0
\* `limit` is None.
NoLimit == -1
\* The markdown files of the Drive folder, and a poem processed before the
\* call whose video is in the output directory.
OrchPoems == {"p1", "p2"}
EarlierPoem == "old"
\* No video file / no Drive id.
NoVideo == "none"
\* A file with no row in the tracker, and the row add_new_file appends.
AbsentRow == [present |-> FALSE, hecho |-> FALSE, video_id |-> NoVideo,
              error |-> "none"]
NewRow == [present |-> TRUE, hecho |-> FALSE, video_id |-> NoVideo,
           error |-> "none"]
\* successful = 0; failed = 0; skipped = 0
NoCounts == [successful |-> 0, failed |-> 0, skipped |-> 0]
\* process_all has not returned.
NoReport == [total |-> -1, successful |-> -1, failed |-> -1, skipped |-> -1,
             results |-> <<>>]
\* Nothing generated, uploaded, deleted, updated or saved yet.
NoEffects == [generated |-> 0, uploads |-> 0, deletes |-> 0, updates |-> 0,
              saves |-> 0]
\* No call of create_gradient_background has returned.
NoImage == [error |-> "none", img |-> <<>>]

\* Local variables of one pass of the loop body, as they are before the
\* pass assigns them.
ClearPoem ==
    /\ text' = <<>>
    /\ lines' = <<>>
    /\ line_indices' = <<>>
    /\ texts_to_synthesize' = <<>>
    /\ paths_to_synthesize' = <<>>
    /\ fragments' = <<>>
    /\ subtitles' = <<>>
    /\ start_time' = 0
    /\ seg' = 1
    /\ final_audio' = 0
    /\ audio_written' = Missing
    /\ duration' = 0
    /\ text_clips' = <<>>
    /\ batch_calls' = 0
    /\ stages' = <<>>

InitMain ==
    /\ pc = "start"
    /\ nfiles \in 0..MaxFiles
    /\ idx = 0
    /\ attempted = {}
    /\ error = "none"
    /\ text = <<>>
    /\ lines = <<>>
    /\ line_indices = <<>>
    /\ texts_to_synthesize = <<>>
    /\ paths_to_synthesize = <<>>
    /\ fragments = <<>>
    /\ subtitles = <<>>
    /\ start_time = 0
    /\ seg = 1
    /\ frag_dirs = {}
    /\ frag_files = [p \in Poems |-> <<>>]
    /\ audio_files = {}
    /\ audio_written = Missing
    /\ video_files = [p \in Poems |-> "absent"]
    /\ tts_cache = {}
    /\ final_audio = 0
    /\ duration = 0
    /\ text_clips = <<>>
    /\ tts_has_batch \in BOOLEAN
    /\ batch_calls = 0
    /\ stages = <<>>

\* The components that take no step in a specification stay as
\* constructed.
MainIdle == InitMain /\ nfiles = 0 /\ ~tts_has_batch

FadeIdle ==
    /\ fd_dur = 1
    /\ fd_fade = 0
    /\ fd_t4 = 0
    /\ fd_opacity = [num |-> 1, den |-> 1]

ZoomIdle ==
    /\ zm_width = 1
    /\ zm_height = 1
    /\ zm_duration = 1
    /\ zm_source = "gradient"
    /\ zm_big = [width |-> 1, height |-> 1]
    /\ zm_t = NoFrame
    /\ zm_crop = [left |-> 0, upper |-> 0, right |-> 0, lower |-> 0]

ComposeIdle ==
    /\ cp_pc = "call"
    /\ cp_image_path = "none"
    /\ cp_zoom_background = FALSE
    /\ cp_add_particles = FALSE
    /\ cp_title = ""
    /\ cp_author = ""
    /\ cp_subtitles = <<>>
    /\ cp_audio_duration = 1
    /\ cp_error = "none"
    /\ cp_bg = "none"
    /\ cp_clips = <<>>
    /\ cp_video_duration = Missing

WrapIdle ==
    /\ wr_pc = "call"
    /\ wr_words = <<>>
    /\ wr_max_width = CharWidth
    /\ wr_max_lines = NoMaxLines
    /\ wr_lines = <<>>

ParticleIdle ==
    /\ pt_particle = [y |-> 0, vy |-> -1, time |-> 0]
    /\ pt_sparkle = [active |-> FALSE, life |-> 1]
    /\ pt_last_frame = 0
    /\ pt_calls = 0
    /\ pt_t = NoFrame
    /\ pt_first = <<>>

TtsIdle ==
    /\ tt_pc = "idle"
    /\ tt_runs = 0
    /\ tt_backend = "kokoro"
    /\ tt_left = 0
    /\ tt_cache = {}
    /\ tt_loads = <<>>

GradientIdle ==
    /\ gr_pc = "call"
    /\ gr_width = 1
    /\ gr_height = 1
    /\ gr_direction = "diagonal"
    /\ gr_colors = <<>>
    /\ gr_img = <<>>
    /\ gr_error = "none"

RepeatIdle ==
    /\ rp_pc = "first"
    /\ rp_palette_name = "None"
    /\ rp_direction = "vertical"
    /\ rp_width = 1
    /\ rp_height = 1
    /\ rp_first = NoImage
    /\ rp_second = NoImage

NamesIdle ==
    /\ nm_pc = "idle"
    /\ nm_runs = 0
    /\ nm_nfiles = 0
    /\ nm_idx = 0
    /\ nm_title = <<>>
    /\ nm_base_name = <<>>
    /\ nm_out = {}
    /\ nm_clash = FALSE

DriftIdle ==
    /\ dr_particle = [x |-> 0, y |-> 0, vy |-> -1,
                     opacity |-> BaseOpacity, respawned |-> FALSE]
    /\ dr_updates = FALSE

SparkleIdle ==
    /\ sk_max_life2 = SparkleFps
    /\ sk_life2 = SparkleFps
    /\ sk_age = 0
    /\ sk_active = FALSE
    /\ sk_drawn = FALSE

OrchIdle ==
    /\ or_pc = "start"
    /\ or_dry_run = FALSE
    /\ or_limit = NoLimit
    /\ or_drive_md = {}
    /\ or_tracker = [p \in OrchPoems |-> AbsentRow]
    /\ or_disk = [p \in OrchPoems |-> AbsentRow]
    /\ or_disk0 = [p \in OrchPoems |-> AbsentRow]
    /\ or_out = <<>>
    /\ or_drive_videos = {}
    /\ or_pending = <<>>
    /\ or_i = 0
    /\ or_results = <<>>
    /\ or_counts = NoCounts
    /\ or_report = NoReport
    /\ or_generated = FALSE
    /\ or_video_file = NoVideo
    /\ or_upload_id = NoVideo
    /\ or_raised = "none"
    /\ or_result = "none"
    /\ or_effects = NoEffects

RetryIdle ==
    /\ rt_op = "list_files_in_folder"
    /\ rt_max_retries = 0
    /\ rt_local_exists = FALSE
    /\ rt_pc = "call"
    /\ rt_attempt = 0
    /\ rt_calls = 0
    /\ rt_failures = 0
    /\ rt_slept = 0
    /\ rt_outcome = "none"

SideIdle ==
    /\ FadeIdle
    /\ ZoomIdle
    /\ ComposeIdle
    /\ WrapIdle
    /\ ParticleIdle
    /\ TtsIdle
    /\ GradientIdle
    /\ RepeatIdle
    /\ NamesIdle
    /\ DriftIdle
    /\ SparkleIdle
    /\ OrchIdle
    /\ RetryIdle

FadeOthersIdle ==
    /\ MainIdle
    /\ ZoomIdle
    /\ ComposeIdle
    /\ WrapIdle
    /\ ParticleIdle
    /\ TtsIdle
    /\ GradientIdle
    /\ RepeatIdle
    /\ NamesIdle
    /\ DriftIdle
    /\ SparkleIdle
    /\ OrchIdle
    /\ RetryIdle

ZoomOthersIdle ==
    /\ MainIdle
    /\ FadeIdle
    /\ ComposeIdle
    /\ WrapIdle
    /\ ParticleIdle
    /\ TtsIdle
    /\ GradientIdle
    /\ RepeatIdle
    /\ NamesIdle
    /\ DriftIdle
    /\ SparkleIdle
    /\ OrchIdle
    /\ RetryIdle

ComposeOthersIdle ==
    /\ MainIdle
    /\ FadeIdle
    /\ ZoomIdle
    /\ WrapIdle
    /\ ParticleIdle
    /\ TtsIdle
    /\ GradientIdle
    /\ RepeatIdle
    /\ NamesIdle
    /\ DriftIdle
    /\ SparkleIdle
    /\ OrchIdle
    /\ RetryIdle

WrapOthersIdle ==
    /\ MainIdle
    /\ FadeIdle
    /\ ZoomIdle
    /\ ComposeIdle
    /\ ParticleIdle
    /\ TtsIdle
    /\ GradientIdle
    /\ RepeatIdle
    /\ NamesIdle
    /\ DriftIdle
    /\ SparkleIdle
    /\ OrchIdle
    /\ RetryIdle

ParticleOthersIdle ==
    /\ MainIdle
    /\ FadeIdle
    /\ ZoomIdle
    /\ ComposeIdle
    /\ WrapIdle
    /\ TtsIdle
    /\ GradientIdle
    /\ RepeatIdle
    /\ NamesIdle
    /\ DriftIdle
    /\ SparkleIdle
    /\ OrchIdle
    /\ RetryIdle

TtsOthersIdle ==
    /\ MainIdle
    /\ FadeIdle
    /\ ZoomIdle
    /\ ComposeIdle
    /\ WrapIdle
    /\ ParticleIdle
    /\ GradientIdle
    /\ RepeatIdle
    /\ NamesIdle
    /\ DriftIdle
    /\ SparkleIdle
    /\ OrchIdle
    /\ RetryIdle

GradientOthersIdle ==
    /\ MainIdle
    /\ FadeIdle
    /\ ZoomIdle
    /\ ComposeIdle
    /\ WrapIdle
    /\ ParticleIdle
    /\ TtsIdle
    /\ RepeatIdle
    /\ NamesIdle
    /\ DriftIdle
    /\ SparkleIdle
    /\ OrchIdle
    /\ RetryIdle

RepeatOthersIdle ==
    /\ MainIdle
    /\ FadeIdle
    /\ ZoomIdle
    /\ ComposeIdle
    /\ WrapIdle
    /\ ParticleIdle
    /\ TtsIdle
    /\ GradientIdle
    /\ NamesIdle
    /\ DriftIdle
    /\ SparkleIdle
    /\ OrchIdle
    /\ RetryIdle

NamesOthersIdle ==
    /\ MainIdle
    /\ FadeIdle
    /\ ZoomIdle
    /\ ComposeIdle
    /\ WrapIdle
    /\ ParticleIdle
    /\ TtsIdle
    /\ GradientIdle
    /\ RepeatIdle
    /\ DriftIdle
    /\ SparkleIdle
    /\ OrchIdle
    /\ RetryIdle

DriftOthersIdle ==
    /\ MainIdle
    /\ FadeIdle
    /\ ZoomIdle
    /\ ComposeIdle
    /\ WrapIdle
    /\ ParticleIdle
    /\ TtsIdle
    /\ GradientIdle
    /\ RepeatIdle
    /\ NamesIdle
    /\ SparkleIdle
    /\ OrchIdle
    /\ RetryIdle

SparkleOthersIdle ==
    /\ MainIdle
    /\ FadeIdle
    /\ ZoomIdle
    /\ ComposeIdle
    /\ WrapIdle
    /\ ParticleIdle
    /\ TtsIdle
    /\ GradientIdle
    /\ RepeatIdle
    /\ NamesIdle
    /\ DriftIdle
    /\ OrchIdle
    /\ RetryIdle

OrchOthersIdle ==
    /\ MainIdle
    /\ FadeIdle
    /\ ZoomIdle
    /\ ComposeIdle
    /\ WrapIdle
    /\ ParticleIdle
    /\ TtsIdle
    /\ GradientIdle
    /\ RepeatIdle
    /\ NamesIdle
    /\ DriftIdle
    /\ SparkleIdle
    /\ RetryIdle

RetryOthersIdle ==
    /\ MainIdle
    /\ FadeIdle
    /\ ZoomIdle
    /\ ComposeIdle
    /\ WrapIdle
    /\ ParticleIdle
    /\ TtsIdle
    /\ GradientIdle
    /\ RepeatIdle
    /\ NamesIdle
    /\ DriftIdle
    /\ SparkleIdle
    /\ OrchIdle

\* ------------------------------------------------------- generate_videos.main
\* The end of one pass of `for idx, path in enumerate(files)`: the next
\* file, or the final print.
NextPoem ==
    /\ ClearPoem
    /\ IF idx < nfiles
       THEN idx' = idx + 1 /\ pc' = "parse"
       ELSE idx' = idx /\ pc' = "done"

\* makedirs(out_dir), glob: no file, return.
Start ==
    /\ pc = "start"
    /\ IF nfiles = 0
       THEN pc' = "done" /\ idx' = idx
       ELSE pc' = "parse" /\ idx' = 1
    /\ UNCHANGED <<batch_calls, stages>>
    /\ UNCHANGED <<tts_has_batch, nfiles, attempted, error, text, lines,
                   line_indices, texts_to_synthesize, paths_to_synthesize,
                   fragments, subtitles, start_time, seg, frag_dirs,
                   frag_files, audio_files, video_files, tts_cache,
                   final_audio, audio_written, duration, text_clips,
                   sideVars>>

\* try: parse_md_file(path) except: print, continue
ParseFile ==
    /\ pc = "parse"
    /\ attempted' = attempted \cup {idx}
    /\ \/ /\ NextPoem
          /\ UNCHANGED error
       \/ \E body \in Bodies :
             /\ text' = body
             /\ pc' = "prepare"
             /\ stages' = <<"Parsed">>
             /\ UNCHANGED batch_calls
             /\ UNCHANGED <<idx, error, lines, line_indices,
                            texts_to_synthesize, paths_to_synthesize,
                            fragments, subtitles, start_time, seg,
                            final_audio, audio_written, duration, text_clips>>
    /\ UNCHANGED <<tts_has_batch, nfiles, frag_dirs, frag_files, audio_files,
                   video_files, tts_cache, sideVars>>

\* One pass of `for j, line in enumerate(lines)` (j is 0-based, the path of
\* line j is frag_<j+1>.wav, text_idx is None for a blank line).
NoneIdx == -1

\* CollectStep with a path collected for every line, blank ones too.
CollectStepAllPaths(c, j, line) ==
    IF IsBlank(line)
    THEN [c EXCEPT !.paths = Append(@, j + 1),
                   !.line_indices =
                      Append(@, [j |-> j, text_idx |-> NoneIdx,
                                 frag_path |-> j + 1])]
    ELSE [texts |-> Append(c.texts, line),
          paths |-> Append(c.paths, j + 1),
          line_indices |->
             Append(c.line_indices,
                    [j |-> j, text_idx |-> Len(c.texts), frag_path |-> j + 1])]

CollectStep(c, j, line) ==
    IF IsBlank(line)
    THEN [c EXCEPT !.line_indices =
             Append(@, [j |-> j, text_idx |-> NoneIdx, frag_path |-> j + 1])]
    ELSE [texts |-> Append(c.texts, line),
          paths |-> Append(c.paths, j + 1),
          line_indices |->
             Append(c.line_indices,
                    [j |-> j, text_idx |-> Len(c.texts), frag_path |-> j + 1])]

RECURSIVE Collect(_, _)
\* The three lists after the first n lines.
Collect(ls, n) ==
    IF n = 0
    THEN [texts |-> <<>>, paths |-> <<>>, line_indices |-> <<>>]
    ELSE CollectStep(Collect(ls, n - 1), n - 1, ls[n])

\* base_name, makedirs(audio_frag_dir), language, the TTS instance (from
\* the cache or from get_tts, which may raise), then the line split and the
\* collection of the batch arguments.
Prepare ==
    /\ pc = "prepare"
    /\ frag_dirs' = frag_dirs \cup {idx}
    /\ \E lang \in Langs :
         \/ /\ tts_cache' = tts_cache \cup {lang}
            /\ lines' = split_text_into_lines(text)
            /\ LET c == Collect(lines', Len(lines'))
               IN  /\ line_indices' = c.line_indices
                   /\ texts_to_synthesize' = c.texts
                   /\ paths_to_synthesize' = c.paths
            /\ fragments' = <<>>
            /\ subtitles' = <<>>
            /\ start_time' = 0
            /\ seg' = 1
            /\ pc' = "synth"
            /\ stages' = Append(stages, "Segmented")
            /\ UNCHANGED error
         \/ /\ lang \notin tts_cache
            /\ pc' = "raised"
            /\ error' = "tts_load"
            /\ stages' = Append(stages, "Failed")
            /\ UNCHANGED <<tts_cache, lines, line_indices,
                           texts_to_synthesize, paths_to_synthesize,
                           fragments, subtitles, start_time, seg>>
    /\ UNCHANGED <<tts_has_batch, nfiles, idx, attempted, text, frag_files,
                   audio_files, video_files, final_audio, audio_written,
                   duration, text_clips, batch_calls, sideVars>>

\* The files a batch call leaves behind: outcome[i] is the duration of the
\* file written at out_paths[i] for texts[i], or Missing when the backend
\* wrote no file there.
WriteBatch(files, texts, out_paths, outcome) ==
    LET written == {i \in 1..Len(out_paths) : outcome[i] # Missing}
        target == {out_paths[i] : i \in written}
        at(p) == CHOOSE i \in written :
                     out_paths[i] = p
                     /\ \A k \in written : out_paths[k] = p => k <= i
    IN  [p \in (DOMAIN files) \cup target |->
            IF p \in target
            THEN [text |-> texts[at(p)], dur |-> outcome[at(p)]]
            ELSE files[p]]

\* OnSynthesisError with the call attempted again.
OnSynthesisErrorRetry == "synth"

\* The call of synthesize_batch_to_files is in no try block: an exception
\* leaves main.
OnSynthesisError == "raised"

\* if texts_to_synthesize: tts.synthesize_batch_to_files(texts, out_paths),
\* called whether or not the instance has that method (AttributeError when
\* it has not), and which may raise; then the existence of each file is
\* only logged.
Synthesize ==
    /\ pc = "synth"
    /\ IF texts_to_synthesize = <<>>
       THEN /\ pc' = "segments"
            /\ stages' = Append(stages, "Synthesizing")
            /\ UNCHANGED <<frag_files, error, batch_calls>>
       ELSE /\ batch_calls' = batch_calls + 1
            /\ IF ~tts_has_batch
               THEN /\ pc' = OnSynthesisError
                    /\ error' = "no_batch_method"
                    /\ stages' = stages \o <<"Synthesizing", "Failed">>
                    /\ UNCHANGED frag_files
               ELSE \E outcome \in [1..Len(texts_to_synthesize)
                                       -> Durs \cup {Missing}] :
                       /\ frag_files' =
                             [frag_files EXCEPT ![idx] =
                                 WriteBatch(@, texts_to_synthesize,
                                            paths_to_synthesize, outcome)]
                       /\ \/ /\ pc' = "segments"
                             /\ stages' = Append(stages, "Synthesizing")
                             /\ UNCHANGED error
                          \/ /\ pc' = OnSynthesisError
                             /\ error' = "synthesis"
                             /\ stages' =
                                   stages \o <<"Synthesizing", "Failed">>
    /\ UNCHANGED <<tts_has_batch, nfiles, idx, attempted, text, lines,
                   line_indices, texts_to_synthesize, paths_to_synthesize,
                   fragments, subtitles, start_time, seg, frag_dirs,
                   audio_files, video_files, tts_cache, final_audio,
                   audio_written, duration, text_clips, sideVars>>

\* AppendSegment with start_time advanced for spoken segments only.
AppendSegmentPauseNoAdvance(st, clip, line_text, dur) ==
    [fragments |-> Append(st.fragments, clip),
     subtitles |-> Append(st.subtitles,
                          [text |-> line_text, start |-> st.start_time,
                           duration |-> dur]),
     start_time |-> IF line_text = <<>> THEN st.start_time
                    ELSE st.start_time + dur]

\* fragments.append(clip); subtitles.append({text, start, duration});
\* start_time += dur
AppendSegment(st, clip, line_text, dur) ==
    [fragments |-> Append(st.fragments, clip),
     subtitles |-> Append(st.subtitles,
                          [text |-> line_text, start |-> st.start_time,
                           duration |-> dur]),
     start_time |-> st.start_time + dur]

\* SkipSegment keeping a pause-long slot in the timeline for the line whose
\* audio is missing.
SkipSegmentKeepSlot(st) ==
    [st EXCEPT !.subtitles =
                  Append(@, [text |-> <<>>, start |-> st.start_time,
                             duration |-> SilenceDuration]),
               !.start_time = @ + SilenceDuration]

\* `if not os.path.exists(frag_path): LOGGER.error(...); continue`
SkipSegment(st) == st

\* One pass of `for j, text_idx, frag_path in line_indices`.  AudioFileClip
\* of an empty wav file, and subclipped(0, 0), either raise or give a clip
\* of duration 0.
ProcessSegment ==
    /\ pc = "segments"
    /\ seg <= Len(line_indices)
    /\ LET e == line_indices[seg]
           line == lines[e.j + 1]
           st == [fragments |-> fragments, subtitles |-> subtitles,
                  start_time |-> start_time]
           take(new) ==
               /\ fragments' = new.fragments
               /\ subtitles' = new.subtitles
               /\ start_time' = new.start_time
               /\ seg' = seg + 1
               /\ UNCHANGED <<pc, error, stages>>
       IN  IF IsBlank(line)
           THEN LET dur == SilenceClipDuration(SilenceDuration, SilenceFramerate)
                IN  /\ frag_files' =
                          [frag_files EXCEPT ![idx] =
                              (e.frag_path :> [text |-> <<>>, dur |-> dur]) @@ @]
                    /\ take(AppendSegment(
                               st, [path |-> e.frag_path, text |-> <<>>,
                                    dur |-> dur], <<>>, dur))
           ELSE /\ UNCHANGED frag_files
                /\ IF e.frag_path \notin DOMAIN frag_files[idx]
                   THEN take(SkipSegment(st))
                   ELSE LET f == frag_files[idx][e.frag_path]
                        IN  \/ take(AppendSegment(
                                       st, [path |-> e.frag_path,
                                            text |-> f.text, dur |-> f.dur],
                                       line, f.dur))
                            \/ /\ f.dur = 0
                               /\ pc' = "raised"
                               /\ error' = "audio_load"
                               /\ stages' = Append(stages, "Failed")
                               /\ UNCHANGED <<fragments, subtitles,
                                              start_time, seg>>
    /\ UNCHANGED <<tts_has_batch, nfiles, idx, attempted, text, lines,
                   line_indices, texts_to_synthesize, paths_to_synthesize,
                   frag_dirs, audio_files, video_files, tts_cache,
                   final_audio, audio_written, duration, text_clips,
                   batch_calls, sideVars>>

\* `if fragments:` after the loop; with no fragment the pass ends here.
EndSegments ==
    /\ pc = "segments"
    /\ seg > Len(line_indices)
    /\ IF fragments # <<>>
       THEN /\ pc' = "audio"
            /\ stages' = Append(stages, "Timelined")
            /\ UNCHANGED batch_calls
            /\ UNCHANGED <<idx, text, lines, line_indices,
                           texts_to_synthesize, paths_to_synthesize,
                           fragments, subtitles, start_time, seg, final_audio,
                           audio_written, duration, text_clips>>
       ELSE NextPoem
    /\ UNCHANGED <<tts_has_batch, nfiles, attempted, error, frag_dirs,
                   frag_files, audio_files, video_files, tts_cache, sideVars>>

\* concatenate_audioclips(fragments), write_audiofile(<base>.wav): the
\* write may raise.
WriteAudio ==
    /\ pc = "audio"
    /\ final_audio' = SumDur(fragments)
    /\ \/ /\ audio_files' = audio_files \cup {idx}
          /\ audio_written' = WrittenDuration(final_audio')
          /\ pc' = "render"
          /\ UNCHANGED <<error, stages>>
       \/ /\ pc' = "raised"
          /\ error' = "audio_write"
          /\ stages' = Append(stages, "Failed")
          /\ UNCHANGED <<audio_files, audio_written>>
    /\ UNCHANGED <<tts_has_batch, nfiles, idx, attempted, text, lines,
                   line_indices, texts_to_synthesize, paths_to_synthesize,
                   fragments, subtitles, start_time, seg, frag_dirs,
                   frag_files, video_files, tts_cache, duration, text_clips,
                   batch_calls, sideVars>>

\* ------------------------------------------- create_video_with_subtitles
\* KeepsSubtitle without the test on the text.
KeepsSubtitleAnyText(sub) == sub.duration > 0

\* `if not text or dur <= 0: continue`
KeepsSubtitle(sub) == sub.text # <<>> /\ sub.duration > 0

\* FadeDurActual4 without the cap at a quarter of the duration.
FadeDurActual4NoCap(fade_duration, dur) == 4 * fade_duration

\* fade_dur_actual = min(fade_duration, dur / 4), kept as 4 * fade_dur_actual
FadeDurActual4(fade_duration, dur) == Min(4 * fade_duration, dur)

\* VideoClip(make_frame, duration=dur).with_start(start): the layer plays
\* for start <= t < end.
MakeTextClip(sub, fade_duration) ==
    [text |-> sub.text,
     start |-> sub.start,
     end |-> sub.start + sub.duration,
     total_dur |-> sub.duration,
     fade_dur4 |-> FadeDurActual4(fade_duration, sub.duration)]

RECURSIVE TextClips(_, _)
\* `for sub in subtitles:` building text_clips
TextClips(subs, fade_duration) ==
    IF subs = <<>> THEN <<>>
    ELSE IF KeepsSubtitle(subs[1])
         THEN <<MakeTextClip(subs[1], fade_duration)>>
              \o TextClips(Tail(subs), fade_duration)
         ELSE TextClips(Tail(subs), fade_duration)

\* IsPlaying with the end of the clip included.
IsPlayingClosed(clip, t) == clip.start <= t /\ t <= clip.end

\* The clip is part of the composite's frame at global time t.
IsPlaying(clip, t) == clip.start <= t /\ t < clip.end

\* create_video_with_subtitles(audio_path, subtitles, out_path, ...):
\*   "ok"          the video is written;
\*   "layer_error" a layer raises while the clips are built, before
\*                 write_videofile opens out_path;
\*   "mux_error"   a frame callback or the encoder raises inside
\*                 write_videofile, after frames were written to out_path.
\* Nothing in the function catches the error or removes out_path.
Render ==
    /\ pc = "render"
    /\ duration' = audio_written
    /\ \E outcome \in {"ok", "layer_error", "mux_error"} :
         /\ text_clips' =
               IF outcome = "layer_error" THEN <<>>
               ELSE TextClips(subtitles, FadeDurationDefault)
         /\ video_files' =
               [video_files EXCEPT ![idx] =
                   CASE outcome = "ok" -> "complete"
                     [] outcome = "mux_error" -> "partial"
                     [] OTHER -> @]
         /\ stages' = stages \o <<"Compositing",
                                  IF outcome = "ok" THEN "Written"
                                  ELSE "Failed">>
         /\ IF outcome = "ok"
            THEN pc' = "cleanup" /\ UNCHANGED error
            ELSE pc' = "raised" /\ error' = "render"
    /\ UNCHANGED <<tts_has_batch, nfiles, idx, attempted, text, lines,
                   line_indices, texts_to_synthesize, paths_to_synthesize,
                   fragments, subtitles, start_time, seg, frag_dirs,
                   frag_files, audio_files, tts_cache, final_audio,
                   audio_written, batch_calls, sideVars>>

\* try: remove every file of audio_frag_dir, rmdir; except: pass.  Then the
\* next file.
Cleanup ==
    /\ pc = "cleanup"
    /\ frag_files' = [frag_files EXCEPT ![idx] = <<>>]
    /\ frag_dirs' = frag_dirs \ {idx}
    /\ NextPoem
    /\ UNCHANGED <<tts_has_batch, nfiles, attempted, error, audio_files,
                   video_files, tts_cache, sideVars>>

Init == InitMain /\ SideIdle

Next ==
    \/ Start
    \/ ParseFile
    \/ Prepare
    \/ Synthesize
    \/ ProcessSegment
    \/ EndSegments
    \/ WriteAudio
    \/ Render
    \/ Cleanup

Spec == Init /\ [][Next]_vars

\* ------------------------------------- one subtitle layer's make_frame
\* make_frame(t, img, fade_dur, total_dur) of a text layer: the opacity it
\* multiplies the alpha channel by, as an exact fraction.  Times are passed
\* multiplied by 4 so that dur / 4 is an integer: t4 = 4 * t,
\* fade_dur4 = 4 * fade_dur, total_dur4 = 4 * total_dur.
MakeFrameOpacity(t4, fade_dur4, total_dur4) ==
    IF t4 < fade_dur4
    THEN [num |-> t4, den |-> fade_dur4]
    ELSE IF t4 > total_dur4 - fade_dur4
         THEN [num |-> total_dur4 - t4, den |-> fade_dur4]
         ELSE [num |-> 1, den |-> 1]

\* A text layer of a segment lasting fd_dur, built with fade_duration
\* fd_fade; no frame requested yet.
InitFade ==
    /\ FadeOthersIdle
    /\ fd_dur \in 1..MaxSegDur
    /\ fd_fade \in 0..MaxFade
    /\ fd_t4 = 0
    /\ fd_opacity =
          MakeFrameOpacity(0, FadeDurActual4(fd_fade, fd_dur), 4 * fd_dur)

\* The muxer asks the layer for its next frame, a quarter of a time unit
\* later, up to local time fd_dur.
MakeFrame ==
    /\ fd_t4 < 4 * fd_dur
    /\ fd_t4' = fd_t4 + 1
    /\ fd_opacity' =
          MakeFrameOpacity(fd_t4', FadeDurActual4(fd_fade, fd_dur), 4 * fd_dur)
    /\ UNCHANGED <<fd_dur, fd_fade>>
    /\ UNCHANGED fadeFrame

NextFade == MakeFrame

SpecFade == InitFade /\ [][NextFade]_vars

\* --------------------------------------- the Ken-Burns background's make_frame
\* int(side * zoom_factor) with zoom_factor = 1.15.  For side < 100 the
\* double product truncates to the same integer as the exact one.
BigSide(side) == (side * ZoomPercent) \div 100

\* create_zoomed_background(resolution, zoom_factor=1.15): the size of the
\* gradient image it returns; and img.resize((big_width, big_height)) of the
\* provided image.
SourceSize(source, width, height) ==
    [width |-> BigSide(width), height |-> BigSide(height)]

\* YOffset with the pan running from the top to the bottom.
YOffsetDownward(big_height, height, t, dur) ==
    ((big_height - height) * t) \div dur

\* progress = t / duration
\* y_offset = int((big_height - height) * (1 - progress))
\* For the resolutions and durations of the model the double arithmetic
\* gives the integer part of the exact quotient.
YOffset(big_height, height, t, dur) ==
    ((big_height - height) * (dur - t)) \div dur

\* x_offset = (big_width - width) // 2
XOffset(big_width, width) == (big_width - width) \div 2

\* The box handed to crop((left, upper, right, lower)) at time t.
CropBox(width, height, t, dur) ==
    LET big_width == BigSide(width)
        big_height == BigSide(height)
        x_offset == XOffset(big_width, width)
        y_offset == YOffset(big_height, height, t, dur)
    IN  [left |-> x_offset, upper |-> y_offset,
         right |-> x_offset + width, lower |-> y_offset + height]

\* zoom_background is set: the inflated source is built for a resolution
\* and an audio duration > 0; no frame requested yet.
InitZoom ==
    /\ ZoomOthersIdle
    /\ zm_width \in 1..MaxRes
    /\ zm_height \in 1..MaxRes
    /\ zm_duration \in 1..MaxZoomDur
    /\ zm_source \in {"image", "gradient"}
    /\ zm_big = SourceSize(zm_source, zm_width, zm_height)
    /\ zm_t = NoFrame
    /\ zm_crop = [left |-> 0, upper |-> 0, right |-> 0, lower |-> 0]

\* make_frame(t) of the background clip, for a t of [0, duration].
ZoomMakeFrame ==
    /\ \E t \in 0..zm_duration :
          /\ zm_t' = t
          /\ zm_crop' = CropBox(zm_width, zm_height, t, zm_duration)
    /\ UNCHANGED <<zm_width, zm_height, zm_duration, zm_source, zm_big>>
    /\ UNCHANGED zoomFrame

NextZoom == ZoomMakeFrame

SpecZoom == InitZoom /\ [][NextZoom]_vars

\* ------------------- create_video_with_subtitles: the layers of the composite
\* The segments main can hand over: a spoken line, a pause for a blank
\* line, and a spoken line whose fragment has duration 0.
SegmentKinds == {"spoken", "pause", "empty"}

SegmentOf(kind, start) ==
    CASE kind = "spoken" -> [text |-> <<A>>, start |-> start, duration |-> 1]
      [] kind = "pause" ->
            [text |-> <<>>, start |-> start, duration |-> SilenceDuration]
      [] OTHER -> [text |-> <<A>>, start |-> start, duration |-> 0]

RECURSIVE TimelineOf(_, _)
\* The timeline main builds for segments of these kinds, the first one
\* starting at start.
TimelineOf(kinds, start) ==
    IF kinds = <<>> THEN <<>>
    ELSE LET sub == SegmentOf(kinds[1], start)
         IN  <<sub>> \o TimelineOf(Tail(kinds), start + sub.duration)

Timelines ==
    {TimelineOf(kinds, 0) :
        kinds \in UNION {[1..n -> SegmentKinds] : n \in 0..MaxSubs}}

\* `if image_path and os.path.exists(image_path):` and, in each branch,
\* `if zoom_background:`.  image_path is "none" (None or ""), "missing" (a
\* path that does not exist) or "exists".  The static image is built by
\* ImageClip(image_path).with_duration(duration) followed by
\* bg.resize(newsize=resolution); the clips of the moviepy that has
\* with_duration have resized(new_size=...), and no resize: AttributeError.
BackgroundOf(image_path, zoom_background) ==
    IF image_path = "exists"
    THEN IF zoom_background THEN "image_zoom" ELSE "AttributeError"
    ELSE IF zoom_background THEN "gradient_zoom" ELSE "gradient"

\* header_text: title and author, or the one that is given, or None (<<>>).
HeaderText(title, author) ==
    IF title # "" /\ author # "" THEN <<title, "-", author>>
    ELSE IF title # "" THEN <<title>>
    ELSE IF author # "" THEN <<author>>
    ELSE <<>>

Layer(kind, content) == [kind |-> kind, content |-> content]

\* ClipsToComposite with the header on top of the subtitle layers.
ClipsToCompositeHeaderLast(bg, add_particles, header_text, layers) ==
    <<Layer("background", bg)>>
    \o (IF add_particles THEN <<Layer("particles", "overlay")>> ELSE <<>>)
    \o [i \in 1..Len(layers) |-> Layer("text", layers[i])]
    \o (IF header_text # <<>> THEN <<Layer("header", header_text)>>
        ELSE <<>>)

\* clips_to_composite = [bg]; append(particle_clip) if add_particles;
\* append(header_clip) if header_text; extend(text_clips)
ClipsToComposite(bg, add_particles, header_text, layers) ==
    <<Layer("background", bg)>>
    \o (IF add_particles THEN <<Layer("particles", "overlay")>> ELSE <<>>)
    \o (IF header_text # <<>> THEN <<Layer("header", header_text)>>
        ELSE <<>>)
    \o [i \in 1..Len(layers) |-> Layer("text", layers[i])]

\* A call of create_video_with_subtitles with an audio file of duration
\* > 0 and a timeline.
InitCompose ==
    /\ ComposeOthersIdle
    /\ cp_pc = "call"
    /\ cp_image_path \in {"none", "missing", "exists"}
    /\ cp_zoom_background \in BOOLEAN
    /\ cp_add_particles \in BOOLEAN
    /\ cp_title \in {"", "T"}
    /\ cp_author \in {"", "U"}
    /\ cp_subtitles \in Timelines
    /\ cp_audio_duration \in Durs \ {0}
    /\ cp_error = "none"
    /\ cp_bg = "none"
    /\ cp_clips = <<>>
    /\ cp_video_duration = Missing

\* create_video_with_subtitles up to
\* CompositeVideoClip(clips_to_composite).with_duration(duration).
ComposeVideo ==
    /\ cp_pc = "call"
    /\ LET bg == BackgroundOf(cp_image_path, cp_zoom_background)
       IN  IF bg = "AttributeError"
           THEN /\ cp_pc' = "raised"
                /\ cp_error' = bg
                /\ UNCHANGED <<cp_bg, cp_clips, cp_video_duration>>
           ELSE /\ cp_pc' = "composited"
                /\ cp_bg' = bg
                /\ cp_clips' =
                      ClipsToComposite(
                         bg, cp_add_particles,
                         HeaderText(cp_title, cp_author),
                         TextClips(cp_subtitles, FadeDurationDefault))
                /\ cp_video_duration' = cp_audio_duration
                /\ UNCHANGED cp_error
    /\ UNCHANGED <<cp_image_path, cp_zoom_background, cp_add_particles,
                   cp_title, cp_author, cp_subtitles, cp_audio_duration>>
    /\ UNCHANGED composeFrame

NextCompose == ComposeVideo

SpecCompose == InitCompose /\ [][NextCompose]_vars

\* ------------------------------------------------------------------ _wrap_text
\* A word is its number of characters, a line the sequence of its words
\* (joined by single spaces), a text the sequence of the words of
\* text.split().
RECURSIVE SumLen(_)
SumLen(ws) == IF ws = <<>> THEN 0 ELSE ws[1] + SumLen(Tail(ws))

\* len(" ".join(words))
JoinLen(ws) == IF ws = <<>> THEN 0 ELSE SumLen(ws) + Len(ws) - 1

\* _measure_text(draw_obj, s, font)[0] for a font whose characters are all
\* CharWidth wide (as in the fallback estimation).
MeasureText(ws) == JoinLen(ws) * CharWidth

RECURSIVE PackWords(_, _, _, _, _)
\* The loop `for word in words` of _wrap_text, and the loop of
\* textwrap.wrap(..., break_long_words=False): a word joins the current
\* line when the line with it measures at most limit, and starts the next
\* line otherwise; a word longer than limit gets a line of its own.
PackWords(ws, current, acc, unit, limit) ==
    IF ws = <<>>
    THEN IF current # <<>> THEN Append(acc, current) ELSE acc
    ELSE IF current = <<>>
         THEN PackWords(Tail(ws), <<ws[1]>>, acc, unit, limit)
         ELSE IF JoinLen(Append(current, ws[1])) * unit <= limit
              THEN PackWords(Tail(ws), Append(current, ws[1]), acc,
                             unit, limit)
              ELSE PackWords(Tail(ws), <<ws[1]>>, Append(acc, current),
                             unit, limit)

\* The lines of the greedy wrap at max_width.
GreedyLines(ws, max_width) == PackWords(ws, <<>>, <<>>, CharWidth, max_width)

\* textwrap.wrap(text, width=width, break_long_words=False)
TextwrapWrap(ws, width) == PackWords(ws, <<>>, <<>>, 1, width)

RECURSIVE JoinLines(_)
\* " ".join(lines)
JoinLines(ls) == IF ls = <<>> THEN <<>> ELSE ls[1] \o JoinLines(Tail(ls))

Max(a, b) == IF a >= b THEN a ELSE b

\* chars_per_line = max(10, max_width // max(1, avg_char_width))
CharsPerLine(max_width) ==
    Max(MinCharsPerLine, max_width \div Max(1, CharWidth))

\* _wrap_text(text, draw_obj, font, max_width, max_lines); max_lines is
\* NoMaxLines for None.
WrapText(ws, max_width, max_lines) ==
    IF ws = <<>> THEN <<ws>>
    ELSE LET wrapped == GreedyLines(ws, max_width)
         IN  IF max_lines # NoMaxLines /\ Len(wrapped) > max_lines
             THEN LET kept == SubSeq(wrapped, 1, max_lines - 1)
                      remaining ==
                          JoinLines(
                             SubSeq(wrapped, max_lines, Len(wrapped)))
                      capped == Append(kept, remaining)
                  IN  IF MeasureText(capped[Len(capped)]) > max_width
                      THEN TextwrapWrap(ws, CharsPerLine(max_width))
                      ELSE capped
             ELSE wrapped

Texts == UNION {[1..n -> 1..MaxWordLen] : n \in 0..MaxWords}

\* render_text_image calls _wrap_text with max_width = width - 2 * padding
\* and max_lines = 2 (tiktok) or None.
InitWrap ==
    /\ WrapOthersIdle
    /\ wr_pc = "call"
    /\ wr_words \in Texts
    /\ wr_max_width \in {c * CharWidth : c \in 1..MaxCols}
    /\ wr_max_lines \in {NoMaxLines, TiktokMaxLines}
    /\ wr_lines = <<>>

CallWrapText ==
    /\ wr_pc = "call"
    /\ wr_pc' = "returned"
    /\ wr_lines' = WrapText(wr_words, wr_max_width, wr_max_lines)
    /\ UNCHANGED <<wr_words, wr_max_width, wr_max_lines>>
    /\ UNCHANGED wrapFrame

NextWrap == CallWrapText

SpecWrap == InitWrap /\ [][NextWrap]_vars

\* ------------------------------- make_particle_clip: the overlay's make_frame
\* One particle and one sparkle.  A query time is counted in half frames
\* (t = half / (2 * fps)), a sparkle's life in frames (1 / fps seconds),
\* a particle's time in units of 0.1 / fps seconds, positions in pixels.
\* The horizontal sway, the twinkle and the rotation are functions of the
\* particle's time and are not kept.
QueryTimes == 0..(2 * MaxFrameIdx + 1)

\* frame_num = int(t * fps)
FrameNum(half) == half \div 2

\* dt = (frame_num - last_frame) / fps if last_frame > 0 else 1 / fps,
\* in frames.
DeltaFrames(frame_num, last_frame) ==
    IF last_frame > 0 THEN frame_num - last_frame ELSE 1

\* Particle.update(dt): time += dt * 0.1; y += vy; a particle that left
\* the top by more than the margin re-enters below the bottom.
ParticleUpdate(p, dt) ==
    LET y == p.y + p.vy
    IN  [p EXCEPT !.time = @ + dt,
                  !.y = IF y < -RespawnMargin
                        THEN ParticleHeight + RespawnMargin ELSE y]

\* Sparkle.update(dt): life -= dt; inactive at life <= 0.
SparkleUpdate(s) ==
    [s EXCEPT !.life = @ - 1, !.active = (s.life - 1 > 0)]

\* What create_particle_frame draws.
Rendered(p, s) == [y |-> p.y, time |-> p.time, sparkle |-> s]

NoRender == [y |-> 0, time |-> -1, sparkle |-> [active |-> FALSE, life |-> 0]]

\* make_particle_clip(duration, resolution, fps, ...): the particle starts
\* anywhere in the frame and drifts upward, the sparkle starts inactive.
InitParticle ==
    /\ ParticleOthersIdle
    /\ \E y \in {0, ParticleHeight}, vy \in {-2, -1} :
          pt_particle = [y |-> y, vy |-> vy, time |-> 0]
    /\ \E life \in 1..MaxLife :
          pt_sparkle = [active |-> FALSE, life |-> life]
    /\ pt_last_frame = 0
    /\ pt_calls = 0
    /\ pt_t = NoFrame
    /\ pt_first = [half \in QueryTimes |-> NoRender]

\* make_frame(t): the particle and the sparkle are advanced, then drawn.
\* random.random() < 0.02 and the life given by reset() are the random
\* generator's.
ParticleMakeFrame ==
    /\ pt_calls < MaxCalls
    /\ \E half \in QueryTimes :
          LET frame_num == FrameNum(half)
              dt == DeltaFrames(frame_num, pt_last_frame)
              p == ParticleUpdate(pt_particle, dt)
          IN  /\ pt_t' = half
              /\ pt_last_frame' = frame_num
              /\ pt_particle' = p
              /\ IF pt_sparkle.active
                 THEN pt_sparkle' = SparkleUpdate(pt_sparkle)
                 ELSE \/ UNCHANGED pt_sparkle
                      \/ \E life \in 1..MaxLife :
                            pt_sparkle' = [active |-> TRUE, life |-> life]
              /\ pt_first' =
                    IF pt_first[half] = NoRender
                    THEN [pt_first EXCEPT ![half] = Rendered(p, pt_sparkle')]
                    ELSE pt_first
    /\ pt_calls' = pt_calls + 1
    /\ UNCHANGED particleFrame

NextParticle == ParticleMakeFrame

SpecParticle == InitParticle /\ [][NextParticle]_vars

\* ----------------------------- the TTS instances over successive calls of main
\* One process calls generate_videos.main several times (the orchestrator
\* calls it once per markdown file).  tts_model, tts_reference_wav, device
\* and tts_model_size are the same in every call; a key is the backend of
\* the call and the language of the poem.
Backends == {"kokoro", "melo"}
TtsKeys == Backends \X Langs

\* tts_key = f"{tts_backend}:{lang}:..."
TtsKey(backend, lang) == <<backend, lang>>

InitTts ==
    /\ TtsOthersIdle
    /\ tt_pc = "idle"
    /\ tt_runs = 0
    /\ tt_backend = "kokoro"
    /\ tt_left = 0
    /\ tt_cache = {}
    /\ tt_loads = [k \in TtsKeys |-> 0]

\* main(input_dir, ..., tts_backend=...): files found, `tts_cache = {}`.
TtsCallMain ==
    /\ tt_pc = "idle"
    /\ tt_runs < MaxRuns
    /\ tt_runs' = tt_runs + 1
    /\ tt_pc' = "loop"
    /\ tt_backend' \in Backends
    /\ tt_left' \in 1..MaxFiles
    /\ tt_cache' = {}
    /\ UNCHANGED tt_loads
    /\ UNCHANGED ttsFrame

\* One pass of the loop over the files, as far as the TTS instance goes:
\* `if tts_key not in tts_cache: tts_cache[tts_key] = get_tts(...)`, where
\* get_tts loads the model or raises.
TtsPoem ==
    /\ tt_pc = "loop"
    /\ tt_left > 0
    /\ \E lang \in Langs :
          LET tts_key == TtsKey(tt_backend, lang)
          IN  IF tts_key \in tt_cache
              THEN /\ tt_left' = tt_left - 1
                   /\ UNCHANGED <<tt_pc, tt_cache, tt_loads>>
              ELSE \/ /\ tt_cache' = tt_cache \cup {tts_key}
                      /\ tt_loads' = [tt_loads EXCEPT ![tts_key] = @ + 1]
                      /\ tt_left' = tt_left - 1
                      /\ UNCHANGED tt_pc
                   \/ /\ tt_pc' = "idle"
                      /\ tt_left' = 0
                      /\ tt_cache' = {}
                      /\ UNCHANGED tt_loads
    /\ UNCHANGED <<tt_runs, tt_backend>>
    /\ UNCHANGED ttsFrame

\* The loop is over: main returns and its local tts_cache is gone.
TtsReturn ==
    /\ tt_pc = "loop"
    /\ tt_left = 0
    /\ tt_pc' = "idle"
    /\ tt_cache' = {}
    /\ UNCHANGED <<tt_runs, tt_backend, tt_left, tt_loads>>
    /\ UNCHANGED ttsFrame

NextTts ==
    \/ TtsCallMain
    \/ TtsPoem
    \/ TtsReturn

SpecTts == InitTts /\ [][NextTts]_vars

\* -------------------------------------------------- create_gradient_background
\* A colour is a triple of channels, a palette a sequence of colours, an
\* image a sequence of rows (top first) of pixels.  Calls are made with
\* noise=False and animated=False.
Colours == {<<7, 0, 0>>, <<7, 3, 0>>, <<0, 7, 3>>}
Palettes == UNION {[1..n -> Colours] : n \in 1..NumColours}
Directions == {"vertical", "horizontal", "diagonal", "radial", "spiral"}

\* The double arithmetic of
\*     t = pos / (size - 1) * (num_colors - 1); frac = t - int(t)
\*     c1 * (1 - frac) + c2 * frac
\* gives the exact value of the interpolation or, when frac is no binary
\* fraction, a double next to it.  These are the <<size, num_colors, pos,
\* c1, c2>>, for sizes up to 16, up to 3 colours and the channels 0, 3 and
\* 7, for which the exact value is an integer and the double lies below it.
DoubleBelowExact ==
    {<<4, 3, 2, 0, 3>>, <<7, 3, 4, 0, 3>>, <<7, 3, 5, 3, 0>>,
     <<8, 3, 4, 0, 7>>, <<8, 3, 6, 0, 7>>, <<10, 2, 1, 7, 7>>,
     <<10, 3, 6, 0, 3>>, <<11, 2, 3, 3, 3>>, <<12, 2, 2, 3, 3>>,
     <<12, 2, 2, 7, 7>>, <<12, 3, 1, 3, 3>>, <<12, 3, 1, 7, 7>>,
     <<13, 2, 1, 7, 7>>, <<13, 3, 8, 0, 3>>, <<13, 3, 10, 3, 0>>,
     <<15, 3, 8, 0, 7>>, <<15, 3, 9, 7, 0>>, <<15, 3, 12, 0, 7>>,
     <<15, 3, 13, 7, 0>>, <<16, 3, 10, 0, 3>>}

\* One channel of `c1 * (1 - frac) + c2 * frac` stored into the uint8
\* image, which truncates; frac = fnum / (size - 1).
InterpChannel(c1, c2, fnum, size, num_colors, pos) ==
    LET exact == (c1 * (size - 1 - fnum) + c2 * fnum) \div (size - 1)
    IN  IF <<size, num_colors, pos, c1, c2>> \in DoubleBelowExact
        THEN exact - 1
        ELSE exact

\* t = pos / (size - 1) * (num_colors - 1); idx = int(t); frac = t - idx;
\* colors[-1] if idx >= num_colors - 1, else the interpolation of
\* colors[idx] and colors[idx + 1].  size >= 2.
ColourAt(colors, pos, size) ==
    LET num_colors == Len(colors)
        tnum == pos * (num_colors - 1)
        index == tnum \div (size - 1)
        fnum == tnum % (size - 1)
    IN  IF index >= num_colors - 1
        THEN colors[num_colors]
        ELSE [ch \in 1..3 |->
                 InterpChannel(colors[index + 1][ch], colors[index + 2][ch],
                               fnum, size, num_colors, pos)]

\* _vertical_gradient(width, height, colors): every pixel of row y gets the
\* colour at y.
VerticalGradient(width, height, colors) ==
    [y \in 1..height |-> [x \in 1..width |-> ColourAt(colors, y - 1, height)]]

\* _horizontal_gradient(width, height, colors)
HorizontalGradient(width, height, colors) ==
    [y \in 1..height |-> [x \in 1..width |-> ColourAt(colors, x - 1, width)]]

\* The exception a direction's function raises for a resolution, or "none":
\*   vertical    y / (height - 1) with height = 1;
\*   horizontal  x / (width - 1) with width = 1;
\*   radial      max_dist = sqrt((width // 2)^2 + (height // 2)^2) is 0.0
\*               for 1 x 1: dist / max_dist is nan and int(nan) raises;
\*   diagonal    max_dist = sqrt(width^2 + height^2) > 0;
\*   spiral      divides by the constants 100 and 2 * pi.
GradientError(direction, width, height) ==
    CASE direction = "vertical" /\ height = 1 -> "ZeroDivisionError"
      [] direction = "horizontal" /\ width = 1 -> "ZeroDivisionError"
      [] direction = "radial" /\ width \div 2 = 0 /\ height \div 2 = 0 ->
            "ValueError"
      [] OTHER -> "none"

InitGradient ==
    /\ GradientOthersIdle
    /\ gr_pc = "call"
    /\ gr_width \in 1..MaxGradWidth
    /\ gr_height \in 1..MaxGradHeight
    /\ gr_direction \in Directions
    /\ gr_colors \in Palettes
    /\ gr_img = <<>>
    /\ gr_error = "none"

\* create_gradient_background((width, height), palette_name, direction,
\* noise=False) with colors = COLOR_PALETTES[palette_name].  The pixels of
\* the diagonal, radial and spiral gradients (square roots and angles) are
\* not kept.
CreateGradient ==
    /\ gr_pc = "call"
    /\ gr_pc' = "returned"
    /\ gr_error' = GradientError(gr_direction, gr_width, gr_height)
    /\ IF gr_error' # "none"
       THEN UNCHANGED gr_img
       ELSE gr_img' =
               CASE gr_direction = "vertical" ->
                       VerticalGradient(gr_width, gr_height, gr_colors)
                 [] gr_direction = "horizontal" ->
                       HorizontalGradient(gr_width, gr_height, gr_colors)
                 [] OTHER -> gr_img
    /\ UNCHANGED <<gr_width, gr_height, gr_direction, gr_colors>>
    /\ UNCHANGED gradientFrame

NextGradient == CreateGradient

SpecGradient == InitGradient /\ [][NextGradient]_vars

\* ----------------------------- create_gradient_background, the same call twice
\* COLOR_PALETTES: the registered names and their colours.  The names of
\* TiktokPalettes are those that start with "tiktok_".
ColorPalettes ==
    [sunset |-> <<<<7, 3, 0>>, <<7, 0, 0>>>>,
     ocean |-> <<<<0, 7, 3>>, <<7, 3, 0>>, <<0, 7, 3>>>>,
     tiktok_cyber |-> <<<<7, 0, 0>>, <<0, 7, 3>>>>,
     tiktok_fire |-> <<<<7, 0, 0>>, <<7, 3, 0>>, <<7, 3, 0>>>>]
TiktokPalettes == {"tiktok_cyber", "tiktok_fire"}

\* The values of the palette_name argument: a registered name, a name that
\* is not registered, and None.
PaletteArgs == DOMAIN ColorPalettes \cup {"no_such_palette", "None"}

\* `if palette_name is None or palette_name not in COLOR_PALETTES:
\*      palette_name = random.choice(tiktok_palettes ...)`:
\* the names the call may go on with.
PaletteChoices(palette_name) ==
    IF palette_name \in DOMAIN ColorPalettes
    THEN {palette_name}
    ELSE TiktokPalettes

\* What create_gradient_background returns (or raises) once the palette is
\* settled; noise=False, animated=False.
GradientResult(direction, width, height, colors) ==
    LET err == GradientError(direction, width, height)
    IN  [error |-> err,
         img |-> CASE err # "none" -> <<>>
                   [] direction = "vertical" ->
                         VerticalGradient(width, height, colors)
                   [] OTHER -> HorizontalGradient(width, height, colors)]

InitRepeat ==
    /\ RepeatOthersIdle
    /\ rp_pc = "first"
    /\ rp_palette_name \in PaletteArgs
    /\ rp_direction \in {"vertical", "horizontal"}
    /\ rp_width \in 1..MaxGradWidth
    /\ rp_height \in 1..MaxGradHeight
    /\ rp_first = NoImage
    /\ rp_second = NoImage

\* One call of create_gradient_background((rp_width, rp_height),
\* rp_palette_name, rp_direction, noise=False, animated=False).
RepeatCreateGradient ==
    /\ rp_pc \in {"first", "second"}
    /\ \E chosen \in PaletteChoices(rp_palette_name) :
          LET res == GradientResult(rp_direction, rp_width, rp_height,
                                    ColorPalettes[chosen])
          IN  IF rp_pc = "first"
              THEN /\ rp_first' = res
                   /\ rp_pc' = "second"
                   /\ UNCHANGED rp_second
              ELSE /\ rp_second' = res
                   /\ rp_pc' = "done"
                   /\ UNCHANGED rp_first
    /\ UNCHANGED <<rp_palette_name, rp_direction, rp_width, rp_height>>
    /\ UNCHANGED repeatFrame

NextRepeat == RepeatCreateGradient

SpecRepeat == InitRepeat /\ [][NextRepeat]_vars

\* ------------------------------------------------------- output base names
\* A string is a sequence of one-character strings.
Rep(c, n) == [i \in 1..n |-> c]

\* str.isalnum() holds of letters and digits, not of punctuation.
Digits == <<"1", "2", "3", "4", "5", "6", "7", "8", "9">>
Alnum == {"a", "b"} \cup {Digits[i] : i \in DOMAIN Digits}
KeptChars == Alnum \cup {" ", "-", "_"}

\* str(idx + 1) for the indices of the model.
IndexString(n) == <<Digits[n]>>

RECURSIVE SelectKept(_)
SelectKept(s) ==
    IF s = <<>> THEN <<>>
    ELSE (IF Head(s) \in KeptChars THEN <<Head(s)>> ELSE <<>>)
         \o SelectKept(Tail(s))

RECURSIVE RStrip(_)
RStrip(s) ==
    IF s # <<>> /\ s[Len(s)] = " "
    THEN RStrip(SubSeq(s, 1, Len(s) - 1))
    ELSE s

\* "".join(c for c in s if c.isalnum() or c in (" ", "-", "_")).rstrip()
sanitize_filename(s) == RStrip(SelectKept(s))

\* raw_name = f"{idx + 1}_{title}"; safe_name = sanitize_filename(raw_name);
\* if len(safe_name) > 80: safe_name = safe_name[:80]
BaseName(index, title) ==
    LET safe_name == sanitize_filename(IndexString(index) \o <<"_">> \o title)
    IN  IF Len(safe_name) > NameCap
        THEN SubSeq(safe_name, 1, NameCap)
        ELSE safe_name

\* Titles of poems: short ones, two that differ in punctuation only, one
\* that ends in a space once its punctuation is dropped, and long ones that
\* differ beyond the cap.
Titles ==
    {<<"a">>, <<"a", "?">>, <<"b", " ", "?">>, <<"a", "-", "b">>,
     Rep("a", NameCap - 2), Rep("a", NameCap - 2) \o <<"b">>}

InitNames ==
    /\ NamesOthersIdle
    /\ nm_pc = "idle"
    /\ nm_runs = 0
    /\ nm_nfiles = 0
    /\ nm_idx = 0
    /\ nm_title = <<>>
    /\ nm_base_name = <<>>
    /\ nm_out = {}
    /\ nm_clash = FALSE

\* main(input_dir, out_dir, ...) is called with the same out_dir: files =
\* sorted(glob("*.md")) is not empty.  _generate_video calls it with a
\* directory that holds the one markdown being processed.
NamesCallMain ==
    /\ nm_pc \in {"idle", "returned"}
    /\ nm_runs < MaxRuns
    /\ nm_runs' = nm_runs + 1
    /\ nm_nfiles' \in 1..MaxFiles
    /\ nm_idx' = 0
    /\ nm_pc' = "loop"
    /\ nm_title' = <<>>
    /\ nm_base_name' = <<>>
    /\ nm_clash' = FALSE
    /\ UNCHANGED nm_out
    /\ UNCHANGED namesFrame

\* One pass of `for idx, path in enumerate(files)`: parse_md_file raises
\* (continue) or gives the title; base_name is computed and the directory
\* base_name + "_frags" made, the audio and the video are then written as
\* base_name + ".wav" and base_name + ".mp4".  nm_title and nm_base_name are
\* those of the poem of this pass (empty when it has none), nm_clash says
\* that another poem had this base name in out_dir.
NamesPoem ==
    /\ nm_pc = "loop"
    /\ nm_idx < nm_nfiles
    /\ nm_idx' = nm_idx + 1
    /\ \/ /\ nm_title' = <<>>
          /\ nm_base_name' = <<>>
          /\ nm_clash' = FALSE
          /\ UNCHANGED nm_out
       \/ \E title \in Titles :
             /\ nm_title' = title
             /\ nm_base_name' = BaseName(nm_idx + 1, title)
             /\ nm_clash' = (nm_base_name' \in nm_out)
             /\ nm_out' = nm_out \cup {nm_base_name'}
    /\ UNCHANGED <<nm_pc, nm_runs, nm_nfiles>>
    /\ UNCHANGED namesFrame

NamesReturn ==
    /\ nm_pc = "loop"
    /\ nm_idx = nm_nfiles
    /\ nm_pc' = "returned"
    /\ UNCHANGED <<nm_runs, nm_nfiles, nm_idx, nm_title, nm_base_name, nm_out,
                   nm_clash>>
    /\ UNCHANGED namesFrame

NextNames ==
    \/ NamesCallMain
    \/ NamesPoem
    \/ NamesReturn

SpecNames == InitNames /\ [][NextNames]_vars

\* ------------------------------------------------- Particle.update, repeated
\* Positions are whole pixels.  vy lies in [-2.5, -0.8]; the horizontal step
\* vx + sway * 0.1 lies in [-1.2, 1.2] and changes from update to update;
\* opacity = base_opacity * (0.7 + 0.3 * twinkle) lies between 0.4 and 1.0
\* of base_opacity.
Drifts == {-1, 0, 1}
Twinkles == {4, 7, 10}

\* ParticleStep without the re-entry at the bottom.
ParticleStepNoRespawn(p, drift, twinkle, fresh_x) ==
    LET x1 == p.x + drift
        x2 == IF x1 < -RespawnMargin THEN ParticleWidth + RespawnMargin
              ELSE x1
        x3 == IF x2 > ParticleWidth + RespawnMargin THEN -RespawnMargin
              ELSE x2
    IN  [x |-> x3, y |-> p.y + p.vy, vy |-> p.vy,
         opacity |-> (BaseOpacity * twinkle) \div 10, respawned |-> FALSE]

\* Particle.update on the position and the opacity:
\*     self.x += self.vx + sway * 0.1; self.y += self.vy
\*     self.opacity = self.base_opacity * (0.7 + 0.3 * twinkle)
\*     if self.y < -20: y = height + 20; x = uniform(0, width); opacity = 0
\*     if self.x < -20: x = width + 20
\*     if self.x > width + 20: x = -20
\* respawned records that the first `if` was taken.
ParticleStep(p, drift, twinkle, fresh_x) ==
    LET x0 == p.x + drift
        y0 == p.y + p.vy
        respawn == y0 < -RespawnMargin
        x1 == IF respawn THEN fresh_x ELSE x0
        x2 == IF x1 < -RespawnMargin THEN ParticleWidth + RespawnMargin
              ELSE x1
        x3 == IF x2 > ParticleWidth + RespawnMargin THEN -RespawnMargin
              ELSE x2
    IN  [x |-> x3,
         y |-> IF respawn THEN ParticleHeight + RespawnMargin ELSE y0,
         vy |-> p.vy,
         opacity |-> IF respawn THEN 0 ELSE (BaseOpacity * twinkle) \div 10,
         respawned |-> respawn]

\* make_particle_clip: p = Particle(width, height); p.y = uniform(0, height)
InitDrift ==
    /\ DriftOthersIdle
    /\ \E x \in 0..ParticleWidth, y \in 0..ParticleHeight, vy \in {-2, -1} :
          dr_particle = [x |-> x, y |-> y, vy |-> vy,
                         opacity |-> BaseOpacity, respawned |-> FALSE]
    /\ dr_updates = FALSE

\* p.update(dt), once per frame callback.
DriftUpdate ==
    /\ \E drift \in Drifts, twinkle \in Twinkles, fresh_x \in 0..ParticleWidth :
          dr_particle' = ParticleStep(dr_particle, drift, twinkle, fresh_x)
    /\ dr_updates' = TRUE
    /\ UNCHANGED driftFrame

NextDrift == DriftUpdate

SpecDrift == InitDrift /\ [][NextDrift]_vars

\* ------------------------------------------------- Sparkle, frame after frame
\* Lives are counted in half frames at 30 frames per second: max_life =
\* random.uniform(0.5, 2.0) seconds is at least SparkleFps half frames, and
\* update(1 / fps) takes two half frames off.
SparkleLives == SparkleFps..MaxSparkleLife2

\* The double arithmetic of `self.life -= dt`, with dt = 1 / 30, started
\* from the double max_life = n / 30: for these whole numbers of frames n
\* (in half frames, up to 33 frames) the difference left after n updates
\* is a positive double (about 1e-16), for the other lives of the model it
\* is negative or zero when the exact difference is.
PositiveAtZero == {2 * n : n \in 15..33}

\* LifeSpent, a frame late.
LifeSpentLate(max_life2, life2) == life2 < -2

\* `if self.life <= 0`, as the doubles decide it, for the exact difference
\* life2.
LifeSpent(max_life2, life2) ==
    \/ life2 < 0
    \/ life2 = 0 /\ max_life2 \notin PositiveAtZero

\* make_particle_clip: s = Sparkle(width, height) runs reset(), which draws
\* max_life and sets life = max_life; then s.active = False.
InitSparkle ==
    /\ SparkleOthersIdle
    /\ sk_max_life2 \in SparkleLives
    /\ sk_life2 = sk_max_life2
    /\ sk_age = 0
    /\ sk_active = FALSE
    /\ sk_drawn = FALSE

\* One call of make_frame, for this sparkle:
\*     if s.active: s.update(1 / fps)
\*     elif random.random() < 0.02: s.reset()
\* and create_particle_frame draws the sparkle `if s.active`.  sk_age counts
\* the updates since the last reset.
SparkleFrame ==
    /\ IF sk_active
       THEN /\ sk_life2' = sk_life2 - 2
            /\ sk_active' = ~LifeSpent(sk_max_life2, sk_life2')
            /\ sk_age' = sk_age + 1
            /\ UNCHANGED sk_max_life2
       ELSE \/ UNCHANGED <<sk_max_life2, sk_life2, sk_age, sk_active>>
            \/ /\ sk_max_life2' \in SparkleLives
               /\ sk_life2' = sk_max_life2'
               /\ sk_age' = 0
               /\ sk_active' = TRUE
    /\ sk_drawn' = sk_active'
    /\ UNCHANGED sparkleFrame

NextSparkle == SparkleFrame

SpecSparkle == InitSparkle /\ [][NextSparkle]_vars

\* ---------------------------------------------- VideoOrchestrator.process_all
\* The tracker is a row per file: present (the file has a row), hecho,
\* video_drive_id and error.  A video of the output directory, and the
\* Drive file uploaded from it, are named by the poem main generated it
\* from; or_out lists the videos of the output directory, oldest first.
InitialRows ==
    {AbsentRow, NewRow,
     [present |-> TRUE, hecho |-> TRUE, video_id |-> EarlierPoem,
      error |-> "none"],
     [present |-> TRUE, hecho |-> FALSE, video_id |-> NoVideo,
      error |-> "error"]}

\* ExcelTracker.get_processed_filenames
ProcessedFilenames(tracker) ==
    {p \in OrchPoems : tracker[p].present /\ tracker[p].hecho}

\* ExcelTracker.mark_processed(index, video_id)
mark_processed(tracker, p, video_id) ==
    [tracker EXCEPT ![p] = [present |-> TRUE, hecho |-> TRUE,
                            video_id |-> video_id, error |-> "none"]]

\* mark_failed that leaves the error column alone.
mark_failed_no_error(tracker, p, error_message) ==
    [tracker EXCEPT ![p].hecho = FALSE]

\* ExcelTracker.mark_failed(index, error_message)
mark_failed(tracker, p, error_message) ==
    [tracker EXCEPT ![p].hecho = FALSE, ![p].error = error_message]

\* The elements of a sequence.
Elements(s) == {s[k] : k \in DOMAIN s}

\* The sequences that list the elements of a set once each.
Orderings(S) ==
    {f \in [1..Cardinality(S) -> S] : \A i, j \in DOMAIN f :
                                         i # j => f[i] # f[j]}

\* files_list = list(files_to_process);
\* if limit is not None and limit < len(files_list): files_list[:limit]
FilesLists(files_to_process, limit) ==
    {IF limit # NoLimit /\ limit < Len(f) THEN SubSeq(f, 1, limit) ELSE f :
        f \in Orderings(files_to_process)}

RECURSIVE SelectPoems(_, _)
\* The files of the list that are in the set, in the order of the list.
SelectPoems(files_list, S) ==
    IF files_list = <<>> THEN <<>>
    ELSE (IF Head(files_list) \in S THEN <<Head(files_list)>> ELSE <<>>)
         \o SelectPoems(Tail(files_list), S)

\* The loop that builds `pending`, on the tracker: a downloaded file gets
\* a row if it has none, and mark_failed if it cannot be parsed.
TrackerAfterCollect(tracker, downloaded, parsed) ==
    [p \in OrchPoems |->
        IF p \notin downloaded THEN tracker[p]
        ELSE LET row == IF tracker[p].present THEN tracker[p] ELSE NewRow
             IN  IF p \in parsed THEN row
                 ELSE [row EXCEPT !.hecho = FALSE, !.error = "error"]]

\* Tally without the count of the failed results.
TallyNoFailed(counts, status) ==
    CASE status = "success" ->
            [counts EXCEPT !.successful = @ + 1]
      [] status = "failed" -> counts
      [] OTHER -> [counts EXCEPT !.skipped = @ + 1]

\* if result.status == "success": successful += 1
\* elif result.status == "failed": failed += 1
\* else: skipped += 1
Tally(counts, status) ==
    CASE status = "success" ->
            [counts EXCEPT !.successful = @ + 1]
      [] status = "failed" -> [counts EXCEPT !.failed = @ + 1]
      [] OTHER -> [counts EXCEPT !.skipped = @ + 1]

\* The final save and upload of the tracker, whatever dry_run is.
SavesTrackerAlways(dry_run) == TRUE

\* `if not dry_run:` before the final save and upload of the tracker
SavesTracker(dry_run) == ~dry_run

\* ProcessingReport(total=len(pending), successful=..., results=results)
Report(pending, counts, results) ==
    [total |-> Len(pending), successful |-> counts.successful,
     failed |-> counts.failed, skipped |-> counts.skipped,
     results |-> results]

\* ProcessingReport(total=0, successful=0, failed=0, skipped=0, results=[])
EmptyReport == Report(<<>>, NoCounts, <<>>)

\* safe_titulo.lower() in video_file.stem.lower(): the title of the poem is
\* part of the name of its own video, and the title of p1 is part of the
\* title of p2.
TitleInStem(p, owner) == p = owner \/ (p = "p1" /\ owner = "p2")

\* mp4_files = list(self.output_dir.glob("*.mp4"))
Mp4Files(out) == Elements(out)

\* _find_generated_video(titulo): the files it may return, NoVideo for
\* None.  glob lists the directory in no particular order.
FindGeneratedVideo(out, p) ==
    IF out = <<>> THEN {NoVideo}
    ELSE IF Len(out) = 1 THEN {out[1]}
    ELSE LET matches == {o \in Mp4Files(out) : TitleInStem(p, o)}
         IN  IF matches # {} THEN matches ELSE {out[Len(out)]}

\* main writes the video of poem p: it is the newest file of the directory.
WriteVideo(out, p) == SelectSeq(out, LAMBDA o : o # p) \o <<p>>

\* The markdown being processed.
Current == or_pending[or_i]

InitOrch ==
    /\ OrchOthersIdle
    /\ or_pc = "start"
    /\ or_dry_run \in BOOLEAN
    /\ or_limit \in {NoLimit, 1}
    /\ or_drive_md \in SUBSET OrchPoems
    /\ or_tracker \in [OrchPoems -> InitialRows]
    /\ or_disk = or_tracker
    /\ or_disk0 = or_tracker
    /\ or_out \in {<<>>, <<EarlierPoem>>}
    /\ or_drive_videos = Mp4Files(or_out)
    /\ or_pending = <<>>
    /\ or_i = 0
    /\ or_results = <<>>
    /\ or_counts = NoCounts
    /\ or_report = NoReport
    /\ or_generated = FALSE
    /\ or_video_file = NoVideo
    /\ or_upload_id = NoVideo
    /\ or_raised = "none"
    /\ or_result = "none"
    /\ or_effects = NoEffects

\* process_all up to the loop over `pending`: the folder is listed (an
\* error of list_files_in_folder leaves process_all), the processed files
\* are taken out, the limit is applied, the files are downloaded and
\* parsed.  Each of the three early returns gives the empty report.
OrchCollect ==
    /\ or_pc = "start"
    /\ \/ /\ or_pc' = "raised"
          /\ UNCHANGED <<or_tracker, or_pending, or_i, or_report>>
       \/ LET files_to_process ==
                  or_drive_md \ ProcessedFilenames(or_tracker)
          IN  IF files_to_process = {}
              THEN /\ or_pc' = "done"
                   /\ or_report' = EmptyReport
                   /\ UNCHANGED <<or_tracker, or_pending, or_i>>
              ELSE \E files_list \in FilesLists(files_to_process, or_limit) :
                   \E downloaded \in SUBSET Elements(files_list) :
                   \E parsed \in SUBSET downloaded :
                      /\ or_tracker' =
                            TrackerAfterCollect(or_tracker, downloaded, parsed)
                      /\ or_pending' = SelectPoems(files_list, parsed)
                      /\ IF or_pending' = <<>>
                         THEN /\ or_pc' = "done"
                              /\ or_report' = EmptyReport
                              /\ UNCHANGED or_i
                         ELSE /\ or_pc' = "loop"
                              /\ or_i' = 1
                              /\ UNCHANGED or_report
    /\ UNCHANGED <<or_dry_run, or_limit, or_drive_md, or_disk, or_disk0,
                   or_out, or_drive_videos, or_results, or_counts,
                   or_generated, or_video_file, or_upload_id, or_raised,
                   or_result, or_effects>>
    /\ UNCHANGED orchFrame

\* `if dry_run:` results.append(ProcessingResult(status="skipped"));
\* skipped += 1; continue
OrchSkip ==
    /\ or_pc = "loop"
    /\ or_i <= Len(or_pending)
    /\ or_dry_run
    /\ or_results' = Append(or_results,
                            [poem |-> Current, status |-> "skipped"])
    /\ or_counts' = [or_counts EXCEPT !.skipped = @ + 1]
    /\ or_i' = or_i + 1
    /\ UNCHANGED <<or_pc, or_dry_run, or_limit, or_drive_md, or_tracker,
                   or_disk, or_disk0, or_out, or_drive_videos, or_pending,
                   or_report, or_generated, or_video_file, or_upload_id,
                   or_raised, or_result, or_effects>>
    /\ UNCHANGED orchFrame

\* process_single_markdown: self._generate_video(md_file).  main is run on
\* the one markdown: it writes the video, or returns without one (the
\* file does not parse, no fragment has audio), or raises.
SingleGenerate ==
    /\ or_pc = "loop"
    /\ or_i <= Len(or_pending)
    /\ ~or_dry_run
    /\ or_video_file' = NoVideo
    /\ or_upload_id' = NoVideo
    /\ or_result' = "none"
    /\ \E outcome \in {"video", "no_video", "raise"} :
          /\ or_generated' = (outcome = "video")
          /\ or_out' = IF outcome = "video" THEN WriteVideo(or_out, Current)
                       ELSE or_out
          /\ or_effects' = IF outcome = "video"
                           THEN [or_effects EXCEPT !.generated = @ + 1]
                           ELSE or_effects
          /\ or_raised' = IF outcome = "raise" THEN "generate" ELSE "none"
          /\ or_pc' = IF outcome = "raise" THEN "except" ELSE "find"
    /\ UNCHANGED <<or_dry_run, or_limit, or_drive_md, or_tracker, or_disk,
                   or_disk0, or_drive_videos, or_pending, or_i, or_results,
                   or_counts, or_report>>
    /\ UNCHANGED orchFrame

\* video_file = self._find_generated_video(titulo);
\* if not video_file or not video_file.exists(): raise OrchestratorError
SingleFind ==
    /\ or_pc = "find"
    /\ \E video_file \in FindGeneratedVideo(or_out, Current) :
          /\ or_video_file' = video_file
          /\ or_raised' = IF video_file = NoVideo THEN "find" ELSE "none"
          /\ or_pc' = IF video_file = NoVideo THEN "except" ELSE "upload"
    /\ UNCHANGED <<or_dry_run, or_limit, or_drive_md, or_tracker, or_disk,
                   or_disk0, or_out, or_drive_videos, or_pending, or_i,
                   or_results, or_counts, or_report, or_generated,
                   or_upload_id, or_result, or_effects>>
    /\ UNCHANGED orchFrame

\* existing_file = find_file_by_name(...); if existing_file: delete_file;
\* video_id = upload_file(str(video_file), videos_folder_id, name).
\* delete_file and upload_file raise DriveManagerError when Drive fails.
SingleUpload ==
    /\ or_pc = "upload"
    /\ LET existing == or_video_file \in or_drive_videos
       IN  \E outcome \in {"ok", "upload_raises"}
                          \cup (IF existing THEN {"delete_raises"} ELSE {}) :
              /\ or_drive_videos' =
                    CASE outcome = "ok" ->
                            or_drive_videos \cup {or_video_file}
                      [] outcome = "upload_raises" ->
                            or_drive_videos \ {or_video_file}
                      [] OTHER -> or_drive_videos
              /\ or_effects' =
                    [or_effects EXCEPT
                        !.deletes = IF existing /\ outcome # "delete_raises"
                                    THEN @ + 1 ELSE @,
                        !.uploads = IF outcome = "ok" THEN @ + 1 ELSE @]
              /\ or_upload_id' = IF outcome = "ok" THEN or_video_file
                                 ELSE NoVideo
              /\ or_raised' = IF outcome = "ok" THEN "none" ELSE "upload"
              /\ or_pc' = IF outcome = "ok" THEN "mark" ELSE "except"
    /\ UNCHANGED <<or_dry_run, or_limit, or_drive_md, or_tracker, or_disk,
                   or_disk0, or_out, or_pending, or_i, or_results, or_counts,
                   or_report, or_generated, or_video_file, or_result>>
    /\ UNCHANGED orchFrame

\* get_shareable_link (its error is swallowed);
\* self.tracker.mark_processed(index, video_id); return "success"
SingleMark ==
    /\ or_pc = "mark"
    /\ or_tracker' = mark_processed(or_tracker, Current, or_upload_id)
    /\ or_result' = "success"
    /\ or_pc' = "record"
    /\ UNCHANGED <<or_dry_run, or_limit, or_drive_md, or_disk, or_disk0,
                   or_out, or_drive_videos, or_pending, or_i, or_results,
                   or_counts, or_report, or_generated, or_video_file,
                   or_upload_id, or_raised, or_effects>>
    /\ UNCHANGED orchFrame

\* except Exception as e: self.tracker.mark_failed(index, error_msg);
\* return "failed"
SingleExcept ==
    /\ or_pc = "except"
    /\ or_tracker' = mark_failed(or_tracker, Current, "error")
    /\ or_result' = "failed"
    /\ or_pc' = "record"
    /\ UNCHANGED <<or_dry_run, or_limit, or_drive_md, or_disk, or_disk0,
                   or_out, or_drive_videos, or_pending, or_i, or_results,
                   or_counts, or_report, or_generated, or_video_file,
                   or_upload_id, or_raised, or_effects>>
    /\ UNCHANGED orchFrame

\* results.append(result); the counters; try: self.tracker.save() except:
\* print a warning.  Then the next markdown.
OrchRecord ==
    /\ or_pc = "record"
    /\ or_results' = Append(or_results,
                            [poem |-> Current, status |-> or_result])
    /\ or_counts' = Tally(or_counts, or_result)
    /\ \/ /\ or_disk' = or_tracker
          /\ or_effects' = [or_effects EXCEPT !.saves = @ + 1]
       \/ UNCHANGED <<or_disk, or_effects>>
    /\ or_i' = or_i + 1
    /\ or_pc' = "loop"
    /\ UNCHANGED <<or_dry_run, or_limit, or_drive_md, or_tracker, or_disk0,
                   or_out, or_drive_videos, or_pending, or_report,
                   or_generated, or_video_file, or_upload_id, or_raised,
                   or_result>>
    /\ UNCHANGED orchFrame

\* After the loop: `if not dry_run:` try: tracker.save(); update_file(
\* excel_file_id, excel_path) except: print.  Then the report.
OrchFinalize ==
    /\ or_pc = "loop"
    /\ or_i > Len(or_pending)
    /\ IF SavesTracker(or_dry_run)
       THEN \E outcome \in {"ok", "save_raises", "update_raises"} :
               /\ or_disk' = IF outcome = "save_raises" THEN or_disk
                             ELSE or_tracker
               /\ or_effects' =
                     [or_effects EXCEPT
                         !.saves = IF outcome = "save_raises" THEN @
                                   ELSE @ + 1,
                         !.updates = IF outcome = "ok" THEN @ + 1 ELSE @]
       ELSE UNCHANGED <<or_disk, or_effects>>
    /\ or_report' = Report(or_pending, or_counts, or_results)
    /\ or_pc' = "done"
    /\ UNCHANGED <<or_dry_run, or_limit, or_drive_md, or_tracker, or_disk0,
                   or_out, or_drive_videos, or_pending, or_i, or_results,
                   or_counts, or_generated, or_video_file, or_upload_id,
                   or_raised, or_result>>
    /\ UNCHANGED orchFrame

NextOrch ==
    \/ OrchCollect
    \/ OrchSkip
    \/ SingleGenerate
    \/ SingleFind
    \/ SingleUpload
    \/ SingleMark
    \/ SingleExcept
    \/ OrchRecord
    \/ OrchFinalize

SpecOrch == InitOrch /\ [][NextOrch]_vars

\* ------------------------------------------------- DriveManager: the retries
\* The four operations that loop `for attempt in range(self.max_retries)`.
DriveOps == {"list_files_in_folder", "download_file", "upload_file",
             "update_file"}

\* upload_file and update_file first test os.path.exists(local_path).
NeedsLocalFile(op) == op \in {"upload_file", "update_file"}

\* ShouldRetry for the last attempt too.
ShouldRetryAlways(attempt, max_retries) == attempt < max_retries

\* except Exception: `if attempt < self.max_retries - 1:` sleep and go on,
\* else raise DriveManagerError.
ShouldRetry(attempt, max_retries) == attempt < max_retries - 1

\* What follows the loop when it ends without return or raise:
\* `return []`, `return False`, or for upload_file a DriveManagerError.
AfterLoop(op) ==
    IF op = "upload_file" THEN "DriveManagerError" ELSE "returned_default"

\* A call of one operation; rt_attempt is the loop variable, rt_calls counts
\* the requests made to Drive, rt_slept the sleeps of
\* retry_delay * (attempt + 1), in retry delays.
InitRetry ==
    /\ RetryOthersIdle
    /\ rt_op \in DriveOps
    /\ rt_max_retries \in 0..MaxRetries
    /\ rt_local_exists \in BOOLEAN
    /\ rt_pc = "call"
    /\ rt_attempt = 0
    /\ rt_calls = 0
    /\ rt_failures = 0
    /\ rt_slept = 0
    /\ rt_outcome = "none"

\* The code before the loop.
RetryEnter ==
    /\ rt_pc = "call"
    /\ IF NeedsLocalFile(rt_op) /\ ~rt_local_exists
       THEN rt_pc' = "done" /\ rt_outcome' = "DriveManagerError"
       ELSE rt_pc' = "loop" /\ UNCHANGED rt_outcome
    /\ UNCHANGED <<rt_op, rt_max_retries, rt_local_exists, rt_attempt,
                   rt_calls, rt_failures, rt_slept>>
    /\ UNCHANGED retryFrame

\* One pass of the loop: the request to Drive returns (the operation
\* returns its value) or raises.
RetryAttempt ==
    /\ rt_pc = "loop"
    /\ rt_attempt < rt_max_retries
    /\ rt_calls' = rt_calls + 1
    /\ \/ /\ rt_pc' = "done"
          /\ rt_outcome' = "returned"
          /\ UNCHANGED <<rt_attempt, rt_failures, rt_slept>>
       \/ /\ rt_failures' = rt_failures + 1
          /\ IF ShouldRetry(rt_attempt, rt_max_retries)
             THEN /\ rt_slept' = rt_slept + rt_attempt + 1
                  /\ rt_attempt' = rt_attempt + 1
                  /\ UNCHANGED <<rt_pc, rt_outcome>>
             ELSE /\ rt_pc' = "done"
                  /\ rt_outcome' = "DriveManagerError"
                  /\ UNCHANGED <<rt_attempt, rt_slept>>
    /\ UNCHANGED <<rt_op, rt_max_retries, rt_local_exists>>
    /\ UNCHANGED retryFrame

\* The loop is over (max_retries = 0): the statement after it.
RetryLoopEnd ==
    /\ rt_pc = "loop"
    /\ rt_attempt >= rt_max_retries
    /\ rt_pc' = "done"
    /\ rt_outcome' = AfterLoop(rt_op)
    /\ UNCHANGED <<rt_op, rt_max_retries, rt_local_exists, rt_attempt,
                   rt_calls, rt_failures, rt_slept>>
    /\ UNCHANGED retryFrame

NextRetry ==
    \/ RetryEnter
    \/ RetryAttempt
    \/ RetryLoopEnd

SpecRetry == InitRetry /\ [][NextRetry]_vars

\* ================================================================ claims
TimelineComplete ==
    \/ pc = "segments" /\ seg > Len(line_indices)
    \/ pc \in {"audio", "render", "cleanup"}

\* The j-th smallest element of a set of naturals.
Nth(S, n) == CHOOSE x \in S : Cardinality({y \in S : y <= x}) = n

RECURSIVE TimelineTotal(_)
TimelineTotal(subs) ==
    IF subs = <<>> THEN 0 ELSE subs[1].duration + TimelineTotal(Tail(subs))

\* C1: the first segment of the timeline starts at 0 and every segment
\* starts where the previous one ends, whatever lines are blank and
\* whatever fragment files exist.
TimelineContiguity ==
    /\ subtitles # <<>> => subtitles[1].start = 0
    /\ \A i \in 1..(Len(subtitles) - 1) :
          subtitles[i + 1].start = subtitles[i].start + subtitles[i].duration

TimelineContiguityWitness ==
    /\ pc = "render"
    /\ Len(subtitles) >= 2
    /\ Len(subtitles) < Len(lines)
    /\ \E i \in 1..Len(subtitles) : subtitles[i].text = <<>>
    /\ \E i \in 1..Len(subtitles) :
          subtitles[i].text # <<>> /\ subtitles[i].duration > 0

\* C2: the complete timeline has exactly one segment per line of the body,
\* in line order: an empty-text segment of positive duration for a blank
\* line, a segment carrying the line for a non-blank line.
OneSegmentPerLine ==
    TimelineComplete =>
        /\ Len(subtitles) = Len(lines)
        /\ \A j \in 1..Len(subtitles) :
              IF IsBlank(lines[j])
              THEN subtitles[j].text = <<>> /\ subtitles[j].duration > 0
              ELSE subtitles[j].text = lines[j]

\* C3: the durations of the timeline's segments add up to the duration of
\* the concatenated track, of the file written and of the audio the
\* compositor loads; the last segment ends where the track ends.
AudioMatchesTimeline ==
    /\ pc \in {"render", "cleanup"} =>
          /\ TimelineTotal(subtitles) = final_audio
          /\ audio_written = final_audio
          /\ subtitles[Len(subtitles)].start
                + subtitles[Len(subtitles)].duration = final_audio
    /\ pc = "cleanup" => duration = TimelineTotal(subtitles)

AudioMatchesTimelineWitness ==
    /\ pc = "cleanup"
    /\ Len(subtitles) >= 2
    /\ Len(subtitles) < Len(lines)
    /\ duration > SilenceDuration

\* Some non-blank line of the current poem has no fragment file after the
\* synthesis call.
FragmentMissing ==
    \E i \in 1..Len(paths_to_synthesize) :
        paths_to_synthesize[i] \notin DOMAIN frag_files[idx]

\* C4: when a non-blank line's fragment is missing after synthesis, no
\* audio track and no video are produced for the poem.
NoTrackAfterSynthesisFailure ==
    (pc \in {"segments", "audio", "render", "cleanup", "raised"}
        /\ idx \in Poems /\ FragmentMissing)
    => (idx \notin audio_files /\ video_files[idx] = "absent")

\* C5: texts[i] and out_paths[i] of the batch call belong to the same line,
\* and the k-th clip of the track is the clip of the k-th segment: the
\* silence for a pause, else the file synthesized from the segment's text
\* at the path of the segment's line.
BatchAligned ==
    /\ Len(texts_to_synthesize) = Len(paths_to_synthesize)
    /\ \A i \in 1..Len(texts_to_synthesize) :
          /\ paths_to_synthesize[i] \in 1..Len(lines)
          /\ texts_to_synthesize[i] = lines[paths_to_synthesize[i]]
    /\ Len(fragments) = Len(subtitles)
    /\ \A k \in 1..Len(fragments) :
          /\ fragments[k].text = subtitles[k].text
          /\ fragments[k].dur = subtitles[k].duration
          /\ \/ subtitles[k].text = <<>> /\ IsBlank(lines[fragments[k].path])
             \/ subtitles[k].text = lines[fragments[k].path]
          /\ \A m \in 1..(k - 1) : fragments[m].path < fragments[k].path

BatchAlignedWitness ==
    /\ pc = "render"
    /\ Len(fragments) = Len(lines)
    /\ Len(texts_to_synthesize) >= 2
    /\ texts_to_synthesize[1] # texts_to_synthesize[2]
    /\ \E j \in 1..Len(lines) :
          IsBlank(lines[j]) /\ j < paths_to_synthesize[2]

\* C6: when main ends, every input file has been attempted.
AllFilesAttempted ==
    pc \in {"done", "raised"} => attempted = 1..nfiles

\* The attempt of main on poem p is over: it succeeded, or it failed at
\* synthesis, at the audio write or at the render.
AttemptOver(p) ==
    /\ p \in attempted
    /\ \/ p < idx
       \/ pc = "done"
       \/ pc = "raised" /\ error \in {"synthesis", "audio_write", "render"}

\* C7: once the attempt on a poem is over, its fragment directory and its
\* fragment files no longer exist.
FragmentsCleanedAfterAttempt ==
    \A p \in Poems :
        AttemptOver(p) => (p \notin frag_dirs /\ frag_files[p] = <<>>)

\* C8: when create_video_with_subtitles raises, no video file is left at
\* out_path.
NoVideoAfterRenderError ==
    (pc = "raised" /\ error = "render") => video_files[idx] = "absent"

\* Is the fraction p at most the fraction q (positive denominators)?
FracLeq(p, q) == p.num * q.den <= q.num * p.den

\* The fade envelope of C9 for the current frame, with
\* f = min(fadeDuration, d / 4) (f4 = 4 * f, d4 = 4 * d).
FadeEnvelopeHolds ==
    LET f4 == Min(4 * fd_fade, fd_dur)
        d4 == 4 * fd_dur
        next == MakeFrameOpacity(fd_t4 + 1, FadeDurActual4(fd_fade, fd_dur), d4)
    IN  /\ fd_opacity.den > 0
        /\ 0 <= fd_opacity.num /\ fd_opacity.num <= fd_opacity.den
        /\ fd_t4 = 0 => fd_opacity.num = 0
        /\ fd_t4 = f4 => fd_opacity.num = fd_opacity.den
        /\ fd_t4 = d4 - f4 => fd_opacity.num = fd_opacity.den
        /\ fd_t4 = d4 => fd_opacity.num = 0
        /\ fd_t4 + 1 <= f4 => FracLeq(fd_opacity, next)
        /\ (fd_t4 >= d4 - f4 /\ fd_t4 + 1 <= d4) => FracLeq(next, fd_opacity)

\* C9 as stated: the envelope for every fadeDuration >= 0.
FadeEnvelopeAnyFade == FadeEnvelopeHolds

\* C9 amended: the envelope for every fadeDuration > 0.
FadeEnvelope == fd_fade > 0 => FadeEnvelopeHolds

FadeEnvelopeWitness ==
    /\ fd_fade > 0
    /\ 4 * fd_fade < fd_dur
    /\ fd_t4 > 4 * fd_dur - 4 * fd_fade
    /\ fd_t4 < 4 * fd_dur
    /\ fd_opacity.num > 0

\* The segments of the timeline that get a layer according to C10.
ShownSegments ==
    {i \in 1..Len(subtitles) :
        subtitles[i].text # <<>> /\ subtitles[i].duration > 0}

\* C10: the composite has one subtitle layer for each segment with
\* non-empty text and duration > 0, in timeline order, and no other; a
\* layer is visible only within [start, start + duration) of its segment.
SubtitleLayers ==
    pc = "cleanup" =>
        /\ Len(text_clips) = Cardinality(ShownSegments)
        /\ \A n \in 1..Len(text_clips) :
              LET sub == subtitles[Nth(ShownSegments, n)]
              IN  /\ text_clips[n].text = sub.text
                  /\ text_clips[n].text # <<>>
                  /\ \A t \in 0..duration :
                        IsPlaying(text_clips[n], t) <=>
                           (sub.start <= t /\ t < sub.start + sub.duration)

SubtitleLayersWitness ==
    /\ pc = "cleanup"
    /\ text_clips # <<>>
    /\ \E i \in 1..Len(subtitles) : subtitles[i].text = <<>>
    /\ \E i \in 1..Len(subtitles) :
          subtitles[i].text # <<>> /\ subtitles[i].duration = 0

\* The stages of one poem, in the order of the loop body of main.
StageOrder ==
    <<"Parsed", "Segmented", "Synthesizing", "Timelined", "Compositing",
      "Written">>

StagesEntered == {stages[i] : i \in 1..Len(stages)}

\* C11: the stages of a poem occur once each and in the order Parsed,
\* Segmented, Synthesizing, Timelined, Compositing, Written, Failed being
\* possible after any of them and last; synthesis is called at most once;
\* the timeline is complete before the audio track is written; composition
\* starts only after the full track has been written; after Written or
\* Failed no stage of the poem runs.
StagesInOrder ==
    /\ \A i \in 1..Len(stages) :
          \/ i <= Len(StageOrder) /\ stages[i] = StageOrder[i]
          \/ i = Len(stages) /\ stages[i] = "Failed"
    /\ batch_calls <= 1
    /\ audio_written # Missing =>
          "Timelined" \in StagesEntered /\ seg > Len(line_indices)
    /\ "Compositing" \in StagesEntered =>
          /\ idx \in audio_files
          /\ audio_written = WrittenDuration(SumDur(fragments))
    /\ (stages # <<>> /\ stages[Len(stages)] \in {"Written", "Failed"}) =>
          pc \in {"cleanup", "raised"}

StagesInOrderWitness ==
    /\ pc = "cleanup"
    /\ stages = StageOrder
    /\ batch_calls = 1
    /\ idx = 2

\* C18: main calls synthesize_batch_to_files only on a TTS instance that
\* has it.
BatchOnlyWhenProvided == batch_calls > 0 => tts_has_batch

BackgroundSelection ==
    cp_pc # "call" =>
        /\ cp_bg \in {"image", "image_zoom"} <=> cp_image_path = "exists"
        /\ cp_image_path # "exists" =>
              cp_bg \in {"gradient", "gradient_zoom"} /\ cp_error = "none"

LayersOfKind(kind) ==
    {i \in 1..Len(cp_clips) : cp_clips[i].kind = kind}

LayerRank(kind) ==
    CASE kind = "background" -> 1
      [] kind = "particles" -> 2
      [] kind = "header" -> 3
      [] OTHER -> 4

\* The segments of the call's timeline that get a subtitle layer.
ComposeShown ==
    {i \in 1..Len(cp_subtitles) :
        cp_subtitles[i].text # <<>> /\ cp_subtitles[i].duration > 0}

\* C14: the layers handed to the composite are, bottom to top, the
\* background, the particle overlay (only with add_particles), the header
\* (only with a non-empty title or author), then the subtitle layers in
\* timeline order; the composite lasts exactly as long as the audio track.
LayerOrder ==
    cp_pc = "composited" =>
        /\ cp_clips # <<>> /\ cp_clips[1].kind = "background"
        /\ Cardinality(LayersOfKind("background")) = 1
        /\ Cardinality(LayersOfKind("particles")) =
              (IF cp_add_particles THEN 1 ELSE 0)
        /\ Cardinality(LayersOfKind("header")) =
              (IF cp_title # "" \/ cp_author # "" THEN 1 ELSE 0)
        /\ Cardinality(LayersOfKind("text")) = Cardinality(ComposeShown)
        /\ \A i, j \in 1..Len(cp_clips) :
              i < j =>
                 /\ LayerRank(cp_clips[i].kind) <= LayerRank(cp_clips[j].kind)
                 /\ (cp_clips[i].kind = "text" /\ cp_clips[j].kind = "text")
                       => cp_clips[i].content.start
                             < cp_clips[j].content.start
        /\ \A n \in 1..Cardinality(ComposeShown) :
              LET i == Nth(LayersOfKind("text"), n)
                  sub == cp_subtitles[Nth(ComposeShown, n)]
              IN  /\ cp_clips[i].content.start = sub.start
                  /\ cp_clips[i].content.end = sub.start + sub.duration
        /\ cp_video_duration = cp_audio_duration

LayerOrderWitness ==
    /\ cp_pc = "composited"
    /\ Cardinality(LayersOfKind("particles")) = 1
    /\ Cardinality(LayersOfKind("header")) = 1
    /\ Cardinality(LayersOfKind("text")) = 2
    /\ Len(cp_subtitles) = 3

\* C15: for a text whose greedy wrap at max_width has 4 or more lines,
\* _wrap_text with max_lines = 2 returns exactly 2 lines: the first greedy
\* line, and all the other greedy lines joined by spaces.
WrapCappedAtTwoLines ==
    LET greedy == GreedyLines(wr_words, wr_max_width)
    IN  (/\ wr_pc = "returned"
         /\ wr_max_lines = TiktokMaxLines
         /\ Len(greedy) >= 4)
        => wr_lines = <<greedy[1], JoinLines(Tail(greedy))>>

\* C16: the particle state drawn for a query time t depends only on t (and
\* on fps and the seed, fixed in a run): whenever a frame is requested for
\* a t that was requested before, the particle is at the position and at
\* the simulation time it had in the first frame for that t.
FrameDependsOnQueryTimeOnly ==
    pt_t # NoFrame =>
        /\ pt_particle.y = pt_first[pt_t].y
        /\ pt_particle.time = pt_first[pt_t].time

\* C17: within one process the TTS instance of a key is constructed at
\* most once, also over successive calls of the pipeline.
TtsLoadedOncePerProcess == \A k \in TtsKeys : tt_loads[k] <= 1

\* C19: create_gradient_background completes without an arithmetic error
\* for every resolution with width >= 1 and height >= 1 and every
\* direction.
GradientCompletes == gr_pc = "returned" => gr_error = "none"

\* Each channel of pixel lies between the channels of c1 and c2.
ChannelsBetween(pixel, c1, c2) ==
    \A ch \in 1..3 :
        \/ c1[ch] <= pixel[ch] /\ pixel[ch] <= c2[ch]
        \/ c2[ch] <= pixel[ch] /\ pixel[ch] <= c1[ch]

\* C20: in the noise-free vertical gradient of a palette P with height >= 2
\* every pixel of row 0 is P[0], every pixel of the last row is P[-1], and
\* every other pixel has each channel between the channels of two adjacent
\* entries of P.
VerticalGradientRange ==
    (/\ gr_pc = "returned"
     /\ gr_direction = "vertical"
     /\ gr_height >= 2)
    => /\ gr_error = "none"
       /\ \A x \in 1..gr_width :
             /\ gr_img[1][x] = gr_colors[1]
             /\ gr_img[gr_height][x] = gr_colors[Len(gr_colors)]
             /\ \A y \in 2..(gr_height - 1) :
                   \/ Len(gr_colors) = 1 /\ gr_img[y][x] = gr_colors[1]
                   \/ \E i \in 1..(Len(gr_colors) - 1) :
                         ChannelsBetween(gr_img[y][x], gr_colors[i],
                                         gr_colors[i + 1])

\* C21: two calls of create_gradient_background with the same resolution,
\* palette argument and direction (noise=False, animated=False) return the
\* same image, whatever the palette argument: a registered name, an
\* unregistered name or None.
IdenticalCallsIdenticalImages == rp_pc = "done" => rp_first = rp_second

\* The shape of the last base name computed.
BaseNameWellFormed ==
    nm_base_name # <<>> =>
        /\ Len(nm_base_name) <= NameCap
        /\ \A i \in DOMAIN nm_base_name : nm_base_name[i] \in KeptChars
        /\ Len(nm_base_name) >= 2
        /\ SubSeq(nm_base_name, 1, 2) = IndexString(nm_idx) \o <<"_">>

\* C22: the base name of every poem starts with the poem's 1-based index,
\* is made of alphanumeric characters, spaces, '-' and '_' only, is at
\* most 80 characters long, and is no base name another poem got in the
\* same output directory.
BaseNamesDistinct == BaseNameWellFormed /\ ~nm_clash

\* The subtitle layers of the composite that are shown at time t.
PlayingAt(t) == {k \in DOMAIN text_clips : IsPlaying(text_clips[k], t)}

\* The segments of the timeline that hold time t.
SegmentsAt(t) ==
    {i \in DOMAIN subtitles :
        /\ subtitles[i].start <= t
        /\ t < subtitles[i].start + subtitles[i].duration}

\* C23: in the video composed from main's timeline, at every time t of the
\* audio at most one subtitle layer is shown, exactly one segment of the
\* timeline holds t, and a layer shown at t is the layer of that segment.
OneSubtitleAtATime ==
    text_clips # <<>> =>
        \A t \in 0..(start_time - 1) :
            /\ Cardinality(PlayingAt(t)) <= 1
            /\ Cardinality(SegmentsAt(t)) = 1
            /\ \A k \in PlayingAt(t) :
                  \A i \in SegmentsAt(t) :
                      /\ text_clips[k].text = subtitles[i].text
                      /\ text_clips[k].start = subtitles[i].start
                      /\ text_clips[k].end =
                            subtitles[i].start + subtitles[i].duration

\* A composed video with two subtitle layers, the second starting at the
\* time the first ends, each shown at some time.
OneSubtitleAtATimeWitness ==
    /\ Len(text_clips) >= 2
    /\ \E k \in 1..(Len(text_clips) - 1) :
          /\ text_clips[k + 1].start = text_clips[k].end
          /\ PlayingAt(text_clips[k].start) = {k}
          /\ PlayingAt(text_clips[k].end) = {k + 1}

\* C24: after every Particle.update, from any start inside the frame,
\* -20 <= y <= height + 20 and -20 <= x <= width + 20; the update in which
\* y drops below -20 leaves the particle at y = height + 20 with an x in
\* [0, width] and opacity 0.
ParticleStaysWithinMargins ==
    dr_updates =>
        /\ -RespawnMargin <= dr_particle.y
        /\ dr_particle.y <= ParticleHeight + RespawnMargin
        /\ -RespawnMargin <= dr_particle.x
        /\ dr_particle.x <= ParticleWidth + RespawnMargin
        /\ dr_particle.respawned =>
              /\ dr_particle.y = ParticleHeight + RespawnMargin
              /\ dr_particle.x \in 0..ParticleWidth
              /\ dr_particle.opacity = 0

\* The update in which the particle passed the top margin: it is back
\* below the bottom edge.
ParticleStaysWithinMarginsWitness ==
    /\ dr_updates
    /\ dr_particle.respawned

\* ceil(max_life * fps), in frames
LifeFrames == (sk_max_life2 + 1) \div 2

\* The life cycle of a sparkle, with `extra` frames beyond
\* ceil(max_life * fps) allowed before it is inactive.
SparkleLifeCycle(extra) ==
    /\ sk_active =>
          /\ sk_age < LifeFrames + extra
          /\ sk_life2 = sk_max_life2 - 2 * sk_age
          /\ sk_age = 0 => sk_life2 = sk_max_life2
    /\ sk_drawn =>
          /\ sk_active
          /\ ~LifeSpent(sk_max_life2, sk_life2)
          /\ sk_life2 <= sk_max_life2

\* C25: a sparkle starts inactive; it becomes active only by reset, with
\* life = max_life; while active its life goes down by 1 / fps per frame
\* and it is inactive no later than ceil(max_life * fps) frames after its
\* activation; a sparkle that is drawn is active with 0 < life <= max_life.
SparkleLifeBounded == SparkleLifeCycle(0)

\* C25, amended: as above, inactive no later than ceil(max_life * fps) + 1
\* frames after its activation.
SparkleLifeBoundedOneMore == SparkleLifeCycle(1)

\* A sparkle still active, and drawn, ceil(max_life * fps) frames after its
\* activation.
SparkleLifeBoundedOneMoreWitness ==
    /\ sk_active
    /\ sk_drawn
    /\ sk_age = LifeFrames

\* A markdown is being processed by process_single_markdown, or has just
\* been.
InAttempt == or_pc \in {"find", "upload", "mark", "except", "record"}

UploadsOwnVideo ==
    or_pc \in {"upload", "mark"} =>
        /\ or_generated
        /\ or_video_file = Current

\* C28: process_all returns one result per pending markdown, failed ones
\* included and in the order of processing, with total = len(results) =
\* successful + failed + skipped, and no result is for a file whose row
\* had Hecho = True.
ReportAccountsForAll ==
    or_pc = "done" =>
        /\ or_report.total = Len(or_report.results)
        /\ or_report.total = or_report.successful + or_report.failed
                                + or_report.skipped
        /\ Len(or_report.results) = Len(or_pending)
        /\ \A k \in DOMAIN or_report.results :
              /\ or_report.results[k].poem = or_pending[k]
              /\ or_report.results[k].poem \notin ProcessedFilenames(or_disk0)

\* A report in which a failed markdown is followed by a successful one.
ReportAccountsForAllWitness ==
    /\ or_pc = "done"
    /\ Len(or_report.results) = 2
    /\ or_report.results[1].status = "failed"
    /\ or_report.results[2].status = "success"
    /\ or_report.failed = 1
    /\ or_report.successful = 1

\* C30: with dry_run = True process_all generates no video, uploads,
\* deletes and updates no Drive file and does not save the tracker, so the
\* tracker file is as it was, and every pending markdown is reported as
\* 'skipped'.
DryRunHasNoEffect ==
    or_dry_run =>
        /\ or_effects = NoEffects
        /\ or_disk = or_disk0
        /\ or_pc = "done" =>
              /\ Len(or_report.results) = Len(or_pending)
              /\ \A k \in DOMAIN or_report.results :
                    /\ or_report.results[k].poem = or_pending[k]
                    /\ or_report.results[k].status = "skipped"

\* A dry run over two pending markdowns, one of them new to the tracker:
\* its row is in memory only.
DryRunHasNoEffectWitness ==
    /\ or_dry_run
    /\ or_pc = "done"
    /\ Len(or_report.results) = 2
    /\ or_tracker # or_disk

\* C29: for max_retries >= 1 each of list_files_in_folder, download_file,
\* upload_file and update_file makes at most max_retries requests to
\* Drive, returns at the first request that succeeds without a further
\* one, and raises DriveManagerError when max_retries requests have failed.
RetriesBounded ==
    rt_max_retries >= 1 =>
        /\ rt_calls <= rt_max_retries
        /\ rt_calls - rt_failures \in {0, 1}
        /\ rt_calls - rt_failures = 1 =>
              /\ rt_pc = "done"
              /\ rt_outcome = "returned"
        /\ rt_outcome = "returned" => rt_calls = rt_failures + 1
        /\ rt_failures = rt_max_retries =>
              /\ rt_pc = "done"
              /\ rt_outcome = "DriveManagerError"
        /\ rt_pc = "done" => rt_outcome \in {"returned", "DriveManagerError"}

\* A call that returned at its last attempt, every earlier one having
\* failed.
RetriesBoundedWitness ==
    /\ rt_max_retries >= 2
    /\ rt_pc = "done"
    /\ rt_failures = rt_max_retries - 1
    /\ rt_outcome = "returned"

====
